---- MODULE Spec2Model ----
(***************************************************************************)
(* DocuNest: envelope encryption of uploaded files (encryptFile /          *)
(* decryptFile under a master key) and the authorization guard of the      *)
(* download handler (ownership, then PIN), modelled from the backend       *)
(* sources.  Byte buffers are sequences of integers 0..255, strings are    *)
(* sequences of one-character strings.                                     *)
(***************************************************************************)
EXTENDS Integers, Sequences, FiniteSets, TLC

VARIABLES
  ENCRYPT_KEY,  \* process.env.ENCRYPT_KEY, a string
  users,        \* table users: the row of user id i is users[i]
  documents,    \* table documents: the row of document id i is documents[i]
  blobs,        \* uploads/encrypted: file name -> content
  uploaded,     \* history: who uploaded document i, which bytes, under which PIN
                \* (as long as the document exists)
  pinSet,       \* history: the PIN user i set last with POST /set-pin
  dl,           \* the download request being handled, or the last one handled
  cr            \* what a specification watches besides the download: the call of
                \* encryptFile / decryptFile, the last request with its response,
                \* or the uploads and deletes that are between two awaits

vars == <<ENCRYPT_KEY, users, documents, blobs, uploaded, pinSet, dl, cr>>

(***************************************************************************)
(* Sizes fixed by the program.                                             *)
(***************************************************************************)
KeyLen == 32
IVLen == 16
BlockLen == 16
HexKeyChars == 64
MinPinLen == 4
MaxPinLen == 6

(***************************************************************************)
(* Bounds of the exploration.                                              *)
(***************************************************************************)
MaxDocs == 2
MaxUsers == 2

Byte == 0..255

(***************************************************************************)
(* Byte and buffer helpers.                                                *)
(***************************************************************************)
RECURSIVE BitXor(_, _, _)
BitXor(a, b, n) ==
  IF n = 0 THEN 0
  ELSE ((((a % 2) + (b % 2)) % 2) + (2 * BitXor(a \div 2, b \div 2, n - 1)))

\* (a function constructor concatenated to <<>> is the same sequence, as a tuple)
XorBytes(a, b) == <<>> \o [i \in 1..Len(a) |-> BitXor(a[i], b[i], 8)]

\* buf.slice(from, to): the elements at the 0-based positions from .. to-1
Slice(buf, from, to) == SubSeq(buf, from + 1, to)

Ok(bytes) == [ok |-> TRUE, bytes |-> bytes, error |-> <<>>]
Err(msg) == [ok |-> FALSE, bytes |-> <<>>, error |-> msg]

(***************************************************************************)
(* Character codes (ASCII) of the characters that occur in secrets, PINs   *)
(* and labels.                                                             *)
(***************************************************************************)
HexDigits == <<"0", "1", "2", "3", "4", "5", "6", "7", "8", "9",
               "a", "b", "c", "d", "e", "f">>
Letters == <<"a", "b", "c", "d", "e", "f", "g", "h", "i", "j", "k", "l", "m",
             "n", "o", "p", "q", "r", "s", "t", "u", "v", "w", "x", "y", "z">>

IsHexDigit(c) == \E i \in 1..16 : HexDigits[i] = c
HexValue(c) == (CHOOSE i \in 1..16 : HexDigits[i] = c) - 1
IsDigit(c) == \E i \in 1..10 : HexDigits[i] = c
CharCode(c) ==
  IF IsDigit(c) THEN 48 + HexValue(c)
  ELSE IF c = " " THEN 32
  ELSE IF c = "-" THEN 45
  ELSE 96 + (CHOOSE i \in 1..26 : Letters[i] = c)

\* Buffer.from(str): the bytes of a string
BufferFromString(s) == <<>> \o [i \in 1..Len(s) |-> CharCode(s[i])]

\* Buffer.from(str, 'hex'): decodes pairs of hex digits and stops at the
\* first pair that is not hex (an odd trailing character is dropped)
RECURSIVE BufferFromHex(_)
BufferFromHex(s) ==
  IF Len(s) < 2 \/ ~IsHexDigit(s[1]) \/ ~IsHexDigit(s[2]) THEN <<>>
  ELSE <<(16 * HexValue(s[1])) + HexValue(s[2])>> \o BufferFromHex(Slice(s, 2, Len(s)))

(***************************************************************************)
(* Stand-in for crypto.createHash('sha256').update(data).digest(): a       *)
(* deterministic 32-byte digest that depends on every byte of the input,   *)
(* on the order of the bytes and on the length.                            *)
(***************************************************************************)
RECURSIVE Absorb(_, _, _)
Absorb(data, j, acc) ==
  IF j > Len(data) \/ acc < 0 THEN acc
  ELSE Absorb(data, j + 1, ((acc * 31) + data[j] + j) % 65521)

Squeeze(h) ==
  <<>> \o [i \in 1..32 |-> (((h + 1) * ((2 * i) + 1)) + ((h \div 256) * i)) % 256]

sha256(data) == Squeeze(Absorb(data, 1, Len(data) + 7))

(***************************************************************************)
(* Stand-in for the AES-256 block permutation: a keyed bijection on        *)
(* 16-byte blocks (5 * 205 = 1 mod 256).                                   *)
(***************************************************************************)
AesBlockEncrypt(key, block) ==
  <<>> \o [i \in 1..BlockLen |->
     ((5 * block[(i % BlockLen) + 1]) + (7 * key[i]) + key[i + BlockLen] + i) % 256]

AesBlockDecrypt(key, block) ==
  LET src(j) == IF j = 1 THEN BlockLen ELSE j - 1
  IN <<>> \o [j \in 1..BlockLen |->
        (205 * (((block[src(j)] + (256 * 16)) - (7 * key[src(j)])) - key[src(j) + BlockLen] - src(j))) % 256]

\* PKCS#7 padding added by cipher.final()
Pkcs7Pad(data) ==
  LET n == BlockLen - (Len(data) % BlockLen)
  IN data \o [i \in 1..n |-> n]

\* the padding check of decipher.final()
Pkcs7Valid(data) ==
  /\ Len(data) >= BlockLen
  /\ LET n == data[Len(data)]
     IN /\ n \in 1..BlockLen
        /\ \A i \in (Len(data) - n + 1)..Len(data) : data[i] = n

Pkcs7Unpad(data) == Slice(data, 0, Len(data) - data[Len(data)])

RECURSIVE CbcEncryptBlocks(_, _, _)
CbcEncryptBlocks(key, prev, data) ==
  IF Len(data) = 0 THEN <<>>
  ELSE LET c == AesBlockEncrypt(key, XorBytes(Slice(data, 0, BlockLen), prev))
       IN c \o CbcEncryptBlocks(key, c, Slice(data, BlockLen, Len(data)))

RECURSIVE CbcDecryptBlocks(_, _, _)
CbcDecryptBlocks(key, prev, data) ==
  IF Len(data) = 0 THEN <<>>
  ELSE LET c == Slice(data, 0, BlockLen)
       IN XorBytes(AesBlockDecrypt(key, c), prev)
            \o CbcDecryptBlocks(key, c, Slice(data, BlockLen, Len(data)))

\* crypto.createCipheriv('aes-256-cbc', key, iv) + update + final
createCipheriv(key, iv, data) ==
  IF Len(key) # KeyLen THEN Err("Invalid key length")
  ELSE IF Len(iv) # IVLen THEN Err("Invalid initialization vector")
  ELSE Ok(CbcEncryptBlocks(key, iv, Pkcs7Pad(data)))

\* crypto.createDecipheriv('aes-256-cbc', key, iv) + update + final
createDecipheriv(key, iv, data) ==
  IF Len(key) # KeyLen THEN Err("Invalid key length")
  ELSE IF Len(iv) # IVLen THEN Err("Invalid initialization vector")
  ELSE IF Len(data) = 0 \/ Len(data) % BlockLen # 0 THEN Err("wrong final block length")
  ELSE LET plain == CbcDecryptBlocks(key, iv, data)
       IN IF Pkcs7Valid(plain) THEN Ok(Pkcs7Unpad(plain)) ELSE Err("bad decrypt")

(***************************************************************************)
(* Base64: a base64 string is the sequence of its 6-bit digits, 64 being   *)
(* the padding character '='.                                              *)
(***************************************************************************)
RECURSIVE toBase64(_)
toBase64(buf) ==
  IF Len(buf) = 0 THEN <<>>
  ELSE IF Len(buf) = 1
  THEN <<buf[1] \div 4, (buf[1] % 4) * 16, 64, 64>>
  ELSE IF Len(buf) = 2
  THEN <<buf[1] \div 4, ((buf[1] % 4) * 16) + (buf[2] \div 16), (buf[2] % 16) * 4, 64>>
  ELSE <<buf[1] \div 4, ((buf[1] % 4) * 16) + (buf[2] \div 16),
         ((buf[2] % 16) * 4) + (buf[3] \div 64), buf[3] % 64>>
         \o toBase64(Slice(buf, 3, Len(buf)))

RECURSIVE fromBase64(_)
fromBase64(s) ==
  IF Len(s) < 2 \/ s[1] = 64 \/ s[2] = 64 THEN <<>>
  ELSE IF Len(s) = 2 \/ s[3] = 64
  THEN <<(s[1] * 4) + (s[2] \div 16)>>
  ELSE IF Len(s) = 3 \/ s[4] = 64
  THEN <<(s[1] * 4) + (s[2] \div 16), ((s[2] % 16) * 16) + (s[3] \div 4)>>
  ELSE <<(s[1] * 4) + (s[2] \div 16), ((s[2] % 16) * 16) + (s[3] \div 4), ((s[3] % 4) * 64) + s[4]>>
         \o fromBase64(Slice(s, 4, Len(s)))

(***************************************************************************)
(* config/keys.js                                                          *)
(***************************************************************************)
HexSecret == <<>> \o [i \in 1..HexKeyChars |-> HexDigits[(((7 * i) + 3) % 16) + 1]]
Passphrase == <<"p", "w", "1", "2">>
Secrets == {HexSecret, Passphrase}

getMasterKey(secret) ==
  IF Len(secret) = 0 THEN Err("ENCRYPT_KEY is not set in environment variables")
  ELSE IF Len(secret) = HexKeyChars THEN Ok(BufferFromHex(secret))
  ELSE Ok(sha256(BufferFromString(secret)))

\* crypto.randomBytes(32) / crypto.randomBytes(16): the values a call may draw
generateFileKey == {<<>> \o [i \in 1..KeyLen |-> ((s * i) + 11) % 256] : s \in {3, 90}}
generateIV == {<<>> \o [i \in 1..IVLen |-> ((s * i) + 5) % 256] : s \in {1, 77}}

(***************************************************************************)
(* utils/encryptFile.js and utils/decryptFile.js                           *)
(***************************************************************************)
KeyLabel == <<"k", "e", "y", "-", "e", "n", "c", "r", "y", "p", "t", "i", "o", "n", "-", "i", "v">>
IVLabel == <<"i", "v", "-", "e", "n", "c", "r", "y", "p", "t", "i", "o", "n", "-", "i", "v">>

keyEncryptionIV(masterKey) ==
  Slice(sha256(masterKey \o BufferFromString(KeyLabel)), 0, 16)

ivEncryptionIV(masterKey) ==
  Slice(sha256(masterKey \o BufferFromString(IVLabel)), 0, 16)

\* decryptFile deriving the IV of the key from the label of the other IV
decryptKeyEncryptionIV_ivLabel(masterKey) ==
  Slice(sha256(masterKey \o BufferFromString(IVLabel)), 0, 16)

\* the two derivations as decryptFile writes them
decryptKeyEncryptionIV(masterKey) ==
  Slice(sha256(masterKey \o BufferFromString(KeyLabel)), 0, 16)

decryptIvEncryptionIV(masterKey) ==
  Slice(sha256(masterKey \o BufferFromString(IVLabel)), 0, 16)

EncErr(msg) == [ok |-> FALSE, encryptedFile |-> <<>>, encryptedKey |-> <<>>,
                encryptedIV |-> <<>>, error |-> msg]

\* encryptFile encrypting every file under one IV instead of the IV it drew
encryptFile_oneIV(secret, fileBuffer, fileKey, fileIV) ==
  LET mk == getMasterKey(secret)
      oneIV == <<>> \o [i \in 1..IVLen |-> 0]
  IN IF ~mk.ok THEN EncErr(mk.error)
     ELSE LET masterKey == mk.bytes
              file == createCipheriv(fileKey, oneIV, fileBuffer)
              key == createCipheriv(masterKey, keyEncryptionIV(masterKey), fileKey)
              iv == createCipheriv(masterKey, ivEncryptionIV(masterKey), oneIV)
          IN IF ~file.ok THEN EncErr(file.error)
             ELSE IF ~key.ok THEN EncErr(key.error)
             ELSE IF ~iv.ok THEN EncErr(iv.error)
             ELSE [ok |-> TRUE, encryptedFile |-> file.bytes,
                   encryptedKey |-> toBase64(key.bytes),
                   encryptedIV |-> toBase64(iv.bytes), error |-> <<>>]

encryptFile(secret, fileBuffer, fileKey, fileIV) ==
  LET mk == getMasterKey(secret)
  IN IF ~mk.ok THEN EncErr(mk.error)
     ELSE LET masterKey == mk.bytes
              file == createCipheriv(fileKey, fileIV, fileBuffer)
              key == createCipheriv(masterKey, keyEncryptionIV(masterKey), fileKey)
              iv == createCipheriv(masterKey, ivEncryptionIV(masterKey), fileIV)
          IN IF ~file.ok THEN EncErr(file.error)
             ELSE IF ~key.ok THEN EncErr(key.error)
             ELSE IF ~iv.ok THEN EncErr(iv.error)
             ELSE [ok |-> TRUE, encryptedFile |-> file.bytes,
                   encryptedKey |-> toBase64(key.bytes),
                   encryptedIV |-> toBase64(iv.bytes), error |-> <<>>]

\* decryptFile unwrapping the IV under the IV that wrapped the key
decryptFile_keyIVForBoth(secret, encryptedFileBuffer, encryptedKeyBase64, encryptedIVBase64) ==
  LET mk == getMasterKey(secret)
  IN IF ~mk.ok THEN Err(mk.error)
     ELSE LET masterKey == mk.bytes
              iv == createDecipheriv(masterKey, decryptKeyEncryptionIV(masterKey),
                                     fromBase64(encryptedIVBase64))
              key == createDecipheriv(masterKey, decryptKeyEncryptionIV(masterKey),
                                      fromBase64(encryptedKeyBase64))
          IN IF ~iv.ok THEN Err(iv.error)
             ELSE IF ~key.ok THEN Err(key.error)
             ELSE createDecipheriv(key.bytes, iv.bytes, encryptedFileBuffer)

decryptFile(secret, encryptedFileBuffer, encryptedKeyBase64, encryptedIVBase64) ==
  LET mk == getMasterKey(secret)
  IN IF ~mk.ok THEN Err(mk.error)
     ELSE LET masterKey == mk.bytes
              iv == createDecipheriv(masterKey, decryptIvEncryptionIV(masterKey),
                                     fromBase64(encryptedIVBase64))
              key == createDecipheriv(masterKey, decryptKeyEncryptionIV(masterKey),
                                      fromBase64(encryptedKeyBase64))
          IN IF ~iv.ok THEN Err(iv.error)
             ELSE IF ~key.ok THEN Err(key.error)
             ELSE createDecipheriv(key.bytes, iv.bytes, encryptedFileBuffer)

(***************************************************************************)
(* File contents explored: empty, one byte, one byte short of a block, a   *)
(* full block, and multi-block buffers.                                    *)
(***************************************************************************)
FileLengths == {0, 1, 15, 16, 17, 32, 33}
FileBuffers == {<<>> \o [i \in 1..n |-> ((37 * i) + n) % 256] : n \in FileLengths}

NoEnc == EncErr(<<>>)
CrIdle == [pc |-> "idle", x |-> <<>>, out |-> NoEnc, dec |-> Err(<<>>)]

(***************************************************************************)
(* Strings of the requests.  A PIN is the sequence of its characters;      *)
(* Undefined is a request parameter that was not sent, Null a column with  *)
(* no value.                                                               *)
(***************************************************************************)
Undefined == <<"undefined">>
Null == <<"null">>
Pin1234 == <<"1", "2", "3", "4">>
Pin9999 == <<"9", "9", "9", "9">>
PinShort == <<"1", "2">>
Pins == {Pin1234, Pin9999}
QueryPins == {Undefined, <<>>} \cup Pins
BodyPins == {Undefined} \cup Pins
SetPinInputs == Pins \cup {PinShort}

\* !v of JavaScript, for the values above
Falsy(v) == v = Undefined \/ v = Null \/ v = <<>>

(***************************************************************************)
(* bcryptjs: hash(s, salt) and compare(s, hash).  A hash is the marker of  *)
(* the algorithm and cost, the salt, and the digest of salt and string.    *)
(***************************************************************************)
BcryptPrefix == "$2a$12$"
Salts == {"salt1"}

bcryptHash(str, salt) == <<BcryptPrefix, salt>> \o str

bcryptCompare(str, hash) ==
  /\ Len(hash) >= 2
  /\ hash[1] = BcryptPrefix
  /\ hash = bcryptHash(str, hash[2])

(***************************************************************************)
(* models/userModel.js                                                     *)
(***************************************************************************)
\* a hook that stores the value as it was assigned
beforeUpdate_asAssigned(user, changedPinHash, salt) == user

\* beforeUpdate: a changed, non-empty pinHash is hashed before it is stored
beforeUpdate(user, changedPinHash, salt) ==
  IF changedPinHash /\ ~Falsy(user.pinHash)
  THEN [user EXCEPT !.pinHash = bcryptHash(user.pinHash, salt)]
  ELSE user

\* comparePIN accepting every PIN once the account has one
comparePIN_anyPin(user, candidatePIN) == ~Falsy(user.pinHash)

\* comparePIN without the test `if (!this.pinHash)`
comparePIN_noHashTest(user, candidatePIN) ==
  IF Falsy(user.pinHash) THEN TRUE ELSE bcryptCompare(candidatePIN, user.pinHash)

comparePIN(user, candidatePIN) ==
  IF Falsy(user.pinHash) THEN FALSE ELSE bcryptCompare(candidatePIN, user.pinHash)

(***************************************************************************)
(* models/documentModel.js: the attributes of the model.  Document.create  *)
(* keeps the values of the model's attributes and ignores every other key  *)
(* of the object it is given; reading a property the row does not have     *)
(* gives undefined.                                                        *)
(***************************************************************************)
DocumentAttributes ==
  {"userId", "filename", "originalFilename", "category", "tags", "encryptedKey",
   "encryptedIV", "filePath", "requiresPIN"}

DocumentCreate(values) ==
  [a \in DocumentAttributes \cap DOMAIN values |-> values[a]]

NoDocument == [destroyed |-> TRUE]
IsRow(row) == "userId" \in DOMAIN row
Prop(row, name) == IF name \in DOMAIN row THEN row[name] ELSE Undefined

NoUpload == [userId |-> 0, fileBuffer |-> <<>>, pin |-> Undefined, pinHash |-> Null]

\* a lookup by id alone: Document.findOne({ where: { id } })
findOne_byIdOnly(id, userId) ==
  IF id \in 1..Len(documents) /\ IsRow(documents[id])
  THEN documents[id]
  ELSE NoDocument

\* Document.findOne({ where: { id, userId } })
findOne(id, userId) ==
  IF id \in 1..Len(documents) /\ IsRow(documents[id]) /\ documents[id].userId = userId
  THEN documents[id]
  ELSE NoDocument

(***************************************************************************)
(* The uploads directory.                                                  *)
(***************************************************************************)
\* `${Date.now()}-${Math.random().toString(36).substring(7)}${fileExt}.enc`:
\* the time of the upload and a random suffix.  The requests of the vault are
\* handled one after the other, and the clock has advanced when the next
\* upload is handled.
RandomSuffixes == {"x7k2q"}
DateNow == Len(documents) + 1
uniqueFilenames == {<<DateNow, r>> : r \in RandomSuffixes}
FileNames == (1..MaxDocs) \X RandomSuffixes
NoFile == <<-1>>
UploadsDir == "uploads/encrypted"
existsSync(path) == path[2] \in FileNames /\ blobs[path[2]] # NoFile
readFileSync(path) == blobs[path[2]]

\* const { category = 'Other', tags = [] } = req.body: the upload form left as
\* it is; tags are stored as one comma-separated string
defaultCategory == <<"Other">>
tagArray == <<>>

\* req.file.originalname: the name the client gave the file
originalname == <<"r", "e", "p", "o", "r", "t", ".", "p", "d", "f">>

(***************************************************************************)
(* Console output.  A line is the template literal of its console.log and  *)
(* the values interpolated into it, each as a string; a number is written  *)
(* in decimal.                                                             *)
(***************************************************************************)
Line(template, values) == [template |-> template, values |-> values]

\* new Date().toISOString(): the time of the request
toISOString == <<"2025-01-01T00:00:00.000Z">>

\* req.originalUrl of a request with query parameter pin (Undefined: none)
originalUrl(path, pin) == IF pin = Undefined THEN path ELSE path \o <<"?pin=">> \o pin

\* req.path: the URL up to the query string
reqPath(url) ==
  LET q == {i \in 1..Len(url) : url[i] = "?pin="}
  IN IF q = {} THEN url
     ELSE SubSeq(url, 1, (CHOOSE i \in q : \A j \in q : i <= j) - 1)

\* the request logger logging the URL with its query string
requestLogger_originalUrl(method, url) ==
  Line("${new Date().toISOString()} - ${req.method} ${req.originalUrl}",
       <<toISOString, <<method>>, url>>)

\* server.js: console.log(`${new Date().toISOString()} - ${req.method} ${req.path}`)
requestLogger(method, url) ==
  Line("${new Date().toISOString()} - ${req.method} ${req.path}",
       <<toISOString, <<method>>, reqPath(url)>>)

downloadPath(id) == <<"/api/files/", ToString(id), "/download">>

VaultEmpty ==
  /\ users = <<>>
  /\ documents = <<>>
  /\ blobs = [f \in FileNames |-> NoFile]
  /\ uploaded = <<>>
  /\ pinSet = <<>>

\* no download request yet
DlIdle == [pc |-> "idle", handler |-> "", userId |-> 0, id |-> 0, pin |-> Undefined,
           document |-> NoDocument, guard |-> "", status |-> 0, message |-> "",
           body |-> <<>>, trail |-> <<>>, log |-> <<>>]

(***************************************************************************)
(* Every call encryptFile(fileBuffer) the exploration makes, with the key  *)
(* and IV it drew and what it returned.                                    *)
(***************************************************************************)
EncryptCalls ==
  {[secret |-> s, fileBuffer |-> x, fileKey |-> k, fileIV |-> v,
    out |-> encryptFile(s, x, k, v)] :
     s \in Secrets, x \in FileBuffers, k \in generateFileKey, v \in generateIV}

\* the calls the uploads of the vault make: two buffers, each with one draw
\* of key and IV, so that two documents have equal or different contents,
\* keys and IVs
UploadCalls ==
  {c \in EncryptCalls :
     \/ Len(c.fileBuffer) = 1 /\ c.fileKey[1] = 14 /\ c.fileIV[1] = 6
     \/ Len(c.fileBuffer) = 17 /\ c.fileKey[1] = 101 /\ c.fileIV[1] = 82}

(***************************************************************************)
(* routes/authRoutes.js                                                    *)
(***************************************************************************)
\* POST /register: User.create({ name, email, passwordHash })
Register ==
  /\ Len(users) < MaxUsers
  /\ users' = Append(users, [pinHash |-> Null])
  /\ pinSet' = Append(pinSet, Undefined)
  /\ UNCHANGED <<ENCRYPT_KEY, documents, blobs, uploaded, dl, cr>>

\* body('pin').isLength({ min: 4, max: 6 }).isNumeric()
\* (on the strings of SetPinInputs, which hold digits and no sign or point)
ValidPin(pin) ==
  /\ Len(pin) >= MinPinLen
  /\ Len(pin) <= MaxPinLen
  /\ \A i \in 1..Len(pin) : IsDigit(pin[i])

\* POST /set-pin saving the PIN to every account
SetPin_everyUser(u, pin, salt) ==
  /\ u \in 1..Len(users)
  /\ IF ~ValidPin(pin)
     THEN UNCHANGED <<users, pinSet>>
     ELSE /\ users' = [v \in 1..Len(users) |->
               beforeUpdate([users[v] EXCEPT !.pinHash = pin], pin # users[v].pinHash, salt)]
          /\ pinSet' = [v \in 1..Len(users) |-> pin]
  /\ UNCHANGED <<ENCRYPT_KEY, documents, blobs, uploaded, dl, cr>>

\* POST /set-pin
SetPin(u, pin, salt) ==
  /\ u \in 1..Len(users)
  /\ IF ~ValidPin(pin)
     THEN UNCHANGED <<users, pinSet>>
     ELSE /\ users' = [users EXCEPT ![u] =
               beforeUpdate([users[u] EXCEPT !.pinHash = pin], pin # users[u].pinHash, salt)]
          /\ pinSet' = [pinSet EXCEPT ![u] = pin]
  /\ UNCHANGED <<ENCRYPT_KEY, documents, blobs, uploaded, dl, cr>>

(***************************************************************************)
(* routes/fileRoutes.js: POST /upload and DELETE /:id                      *)
(***************************************************************************)
\* requiresPIN === 'true' || requiresPIN === true
IsTrue(v) == v = "true"

\* a PIN sent with an upload hashed whether or not the file requires a PIN
hashedPin_wheneverPin(requiresPIN, pin, salt) ==
  IF ~Falsy(pin) THEN bcryptHash(pin, salt) ELSE Null

\* let hashedPin = null; if ((requiresPIN === 'true' || requiresPIN === true) && pin)
\* hashedPin = await bcrypt.hash(pin, salt)
hashedPin(requiresPIN, pin, salt) ==
  IF IsTrue(requiresPIN) /\ ~Falsy(pin) THEN bcryptHash(pin, salt) ELSE Null

\* the object POST /upload hands to Document.create
UploadValues(u, c, requiresPIN, pin, uniqueFilename, salt) ==
  [userId |-> u, filename |-> uniqueFilename,
   originalFilename |-> originalname,
   category |-> defaultCategory, tags |-> tagArray,
   encryptedKey |-> c.out.encryptedKey,
   encryptedIV |-> c.out.encryptedIV,
   filePath |-> <<UploadsDir, uniqueFilename>>,
   requiresPIN |-> IsTrue(requiresPIN),
   pinHash |-> hashedPin(requiresPIN, pin, salt)]

\* what the history keeps of an upload
UploadHistory(u, c, requiresPIN, pin, salt) ==
  [userId |-> u, fileBuffer |-> c.fileBuffer,
   pin |-> IF IsTrue(requiresPIN) /\ ~Falsy(pin) THEN pin ELSE Undefined,
   pinHash |-> hashedPin(requiresPIN, pin, salt)]

\* POST /upload writing the blob before it looks at the outcome of encryptFile
UploadWrites_beforeEncrypt(u, c, requiresPIN, pin, uniqueFilename, salt) ==
  /\ u \in 1..Len(users)
  /\ Len(documents) < MaxDocs
  /\ c.secret = ENCRYPT_KEY
  /\ blobs' = [blobs EXCEPT ![uniqueFilename] = c.out.encryptedFile]
  /\ IF ~c.out.ok
     THEN UNCHANGED <<documents, uploaded>>
     ELSE /\ documents' = Append(documents, DocumentCreate(
                  UploadValues(u, c, requiresPIN, pin, uniqueFilename, salt)))
          /\ uploaded' = Append(uploaded, UploadHistory(u, c, requiresPIN, pin, salt))

\* the handler with the per-file PIN: what it writes to the uploads
\* directory and to the database
UploadWrites(u, c, requiresPIN, pin, uniqueFilename, salt) ==
  /\ u \in 1..Len(users)
  /\ Len(documents) < MaxDocs
  /\ c.secret = ENCRYPT_KEY
  /\ IF ~c.out.ok
     THEN UNCHANGED <<documents, blobs, uploaded>>
     ELSE /\ blobs' = [blobs EXCEPT ![uniqueFilename] = c.out.encryptedFile]
          /\ documents' = Append(documents, DocumentCreate(
                  UploadValues(u, c, requiresPIN, pin, uniqueFilename, salt)))
          /\ uploaded' = Append(uploaded, UploadHistory(u, c, requiresPIN, pin, salt))

Upload(u, c, requiresPIN, pin, uniqueFilename, salt) ==
  /\ UploadWrites(u, c, requiresPIN, pin, uniqueFilename, salt)
  /\ UNCHANGED <<ENCRYPT_KEY, users, pinSet, dl, cr>>

\* the handler without the per-file PIN
UploadLegacy(u, c, requiresPIN, uniqueFilename) ==
  /\ u \in 1..Len(users)
  /\ Len(documents) < MaxDocs
  /\ c.secret = ENCRYPT_KEY
  /\ IF ~c.out.ok
     THEN UNCHANGED <<documents, blobs, uploaded>>
     ELSE /\ blobs' = [blobs EXCEPT ![uniqueFilename] = c.out.encryptedFile]
          /\ documents' = Append(documents, DocumentCreate(
               [userId |-> u, filename |-> uniqueFilename,
                originalFilename |-> originalname,
                category |-> defaultCategory, tags |-> tagArray,
                encryptedKey |-> c.out.encryptedKey,
                encryptedIV |-> c.out.encryptedIV,
                filePath |-> <<UploadsDir, uniqueFilename>>,
                requiresPIN |-> IsTrue(requiresPIN)]))
          /\ uploaded' = Append(uploaded,
               [userId |-> u, fileBuffer |-> c.fileBuffer, pin |-> Undefined,
                pinHash |-> Null])
  /\ UNCHANGED <<ENCRYPT_KEY, users, pinSet, dl, cr>>

\* DELETE /:id destroying the row and leaving the file on disk
DeleteWrites_rowOnly(u, id) ==
  /\ u \in 1..Len(users)
  /\ LET document == findOne(id, u)
     IN IF ~IsRow(document)
        THEN UNCHANGED <<documents, blobs, uploaded>>
        ELSE /\ blobs' = blobs
             /\ documents' = [documents EXCEPT ![id] = NoDocument]
             /\ uploaded' = [uploaded EXCEPT ![id] = NoUpload]

\* DELETE /:id destroying every row of the user
DeleteWrites_everyRowOfUser(u, id) ==
  /\ u \in 1..Len(users)
  /\ LET document == findOne(id, u)
         mine == {i \in 1..Len(documents) : IsRow(documents[i]) /\ documents[i].userId = u}
     IN IF ~IsRow(document)
        THEN UNCHANGED <<documents, blobs, uploaded>>
        ELSE /\ blobs' = [f \in FileNames |->
                           IF \E i \in mine : documents[i].filePath[2] = f
                           THEN NoFile ELSE blobs[f]]
             /\ documents' = [i \in 1..Len(documents) |->
                               IF i \in mine THEN NoDocument ELSE documents[i]]
             /\ uploaded' = [i \in 1..Len(uploaded) |->
                              IF i \in mine THEN NoUpload ELSE uploaded[i]]

\* DELETE /:id (the same in both versions of the routes): what it writes to
\* the uploads directory and to the database
DeleteWrites(u, id) ==
  /\ u \in 1..Len(users)
  /\ LET document == findOne(id, u)
     IN IF ~IsRow(document)
        THEN UNCHANGED <<documents, blobs, uploaded>>
        ELSE /\ blobs' = IF existsSync(document.filePath)
                         THEN [blobs EXCEPT ![document.filePath[2]] = NoFile]
                         ELSE blobs
             /\ documents' = [documents EXCEPT ![id] = NoDocument]
             /\ uploaded' = [uploaded EXCEPT ![id] = NoUpload]

Delete(u, id) ==
  /\ DeleteWrites(u, id)
  /\ UNCHANGED <<ENCRYPT_KEY, users, pinSet, dl, cr>>

(***************************************************************************)
(* routes/fileRoutes.js: GET /:id/download, one action per check of the    *)
(* handler, in two versions: "perFile" verifies the PIN against the        *)
(* document's own hash and falls back to the account PIN, "legacy" knows   *)
(* the account PIN only.  dl.trail lists what the request has done so far. *)
(***************************************************************************)
Handlers == {"perFile", "legacy"}

\* res.status(status).json({ success: false, message }): the guard denies
Deny(req, status, message) ==
  [req EXCEPT !.pc = "done", !.guard = "DENIED", !.status = status, !.message = message]

\* next(error): middleware/errorHandler.js answers a thrown error
errorHandler(req, error) ==
  [req EXCEPT !.pc = "done", !.status = 500, !.message = error]

\* the request arrives authenticated; Document.findOne({ where: { id, userId } })
OwnershipCheck(u, id, pin, handler) ==
  /\ dl.pc \in {"idle", "done"}
  /\ u \in 1..Len(users)
  /\ LET document == findOne(id, u)
         req == [DlIdle EXCEPT !.handler = handler, !.userId = u, !.id = id,
                               !.pin = pin, !.document = document,
                               !.trail = <<"OwnershipCheck">>,
                               !.log = <<requestLogger("GET",
                                           originalUrl(downloadPath(id), pin))>>]
     IN dl' = IF ~IsRow(document)
              THEN Deny(req, 404, "File not found")
              ELSE [req EXCEPT !.pc = "PinRequiredCheck"]
  /\ UNCHANGED <<ENCRYPT_KEY, users, documents, blobs, uploaded, pinSet, cr>>

\* the handler asking for the PIN of every document
PinRequiredCheck_everyDocument ==
  /\ dl.pc = "PinRequiredCheck"
  /\ dl' = [dl EXCEPT !.pc = "PinSuppliedCheck",
                      !.trail = Append(@, "PinRequiredCheck")]
  /\ UNCHANGED <<ENCRYPT_KEY, users, documents, blobs, uploaded, pinSet, cr>>

\* if (document.requiresPIN)
PinRequiredCheck ==
  /\ dl.pc = "PinRequiredCheck"
  /\ LET req == [dl EXCEPT !.trail = Append(@, "PinRequiredCheck")]
     IN dl' = IF dl.document.requiresPIN
              THEN [req EXCEPT !.pc = "PinSuppliedCheck"]
              ELSE [req EXCEPT !.pc = "ALLOWED", !.guard = "ALLOWED"]
  /\ UNCHANGED <<ENCRYPT_KEY, users, documents, blobs, uploaded, pinSet, cr>>

\* the handler testing `pin === undefined` instead of `!pin`
PinSuppliedCheck_undefinedOnly ==
  /\ dl.pc = "PinSuppliedCheck"
  /\ LET req == [dl EXCEPT !.trail = Append(@, "PinSuppliedCheck")]
     IN dl' = IF dl.pin = Undefined
              THEN [req EXCEPT !.pc = "done", !.guard = "DENIED", !.status = 403,
                               !.message = "PIN required to download this file"]
              ELSE [req EXCEPT !.pc = "PinVerify"]
  /\ UNCHANGED <<ENCRYPT_KEY, users, documents, blobs, uploaded, pinSet, cr>>

\* const { pin } = req.query; if (!pin)
PinSuppliedCheck ==
  /\ dl.pc = "PinSuppliedCheck"
  /\ LET req == [dl EXCEPT !.trail = Append(@, "PinSuppliedCheck")]
     IN dl' = IF Falsy(dl.pin)
              THEN Deny([req EXCEPT !.log = Append(@, Line(
                           "[PIN] User ${req.userId} attempted download of ${document.originalFilename} without PIN",
                           <<<<ToString(req.userId)>>, req.document.originalFilename>>))],
                        403, "PIN required to download this file")
              ELSE [req EXCEPT !.pc = "PinVerify"]
  /\ UNCHANGED <<ENCRYPT_KEY, users, documents, blobs, uploaded, pinSet, cr>>

\* the PIN check answering a mismatch without returning from the handler
PinVerifyPerFile_noReturn(req) ==
  IF ~Falsy(Prop(req.document, "pinHash"))
  THEN IF ~bcryptCompare(req.pin, req.document.pinHash)
       THEN [req EXCEPT !.pc = "ALLOWED", !.guard = "DENIED", !.status = 403,
                        !.message = "Invalid PIN for this file"]
       ELSE [req EXCEPT !.pc = "ALLOWED", !.guard = "ALLOWED"]
  ELSE IF req.userId \notin 1..Len(users) \/ ~comparePIN(users[req.userId], req.pin)
       THEN [req EXCEPT !.pc = "ALLOWED", !.guard = "DENIED", !.status = 403,
                        !.message = "Invalid PIN"]
       ELSE [req EXCEPT !.pc = "ALLOWED", !.guard = "ALLOWED"]

\* the per-file hash if the document has one, else the PIN of the account
PinVerifyPerFile(req) ==
  LET id == <<ToString(req.userId)>>
      name == req.document.originalFilename
  IN
  IF ~Falsy(Prop(req.document, "pinHash"))
  THEN IF ~bcryptCompare(req.pin, req.document.pinHash)
       THEN Deny([req EXCEPT !.log = Append(@, Line(
                    "[PIN] User ${req.userId} provided invalid PIN for file ${document.originalFilename}",
                    <<id, name>>))],
                 403, "Invalid PIN for this file")
       ELSE [req EXCEPT !.pc = "ALLOWED", !.guard = "ALLOWED",
                        !.log = Append(@, Line(
                    "[PIN] User ${req.userId} provided correct PIN for file ${document.originalFilename}",
                    <<id, name>>))]
  ELSE LET fallback == [req EXCEPT !.log = Append(@, Line(
                    "[PIN] No per-file PIN hash found, checking user PIN for file ${document.originalFilename}",
                    <<name>>))]
       IN IF req.userId \notin 1..Len(users)
          THEN Deny(fallback, 403, "User not found")
          ELSE IF ~comparePIN(users[req.userId], req.pin)
               THEN Deny([fallback EXCEPT !.log = Append(@, Line(
                            "[PIN] User ${req.userId} provided invalid user PIN", <<id>>))],
                         403, "Invalid PIN")
               ELSE [fallback EXCEPT !.pc = "ALLOWED", !.guard = "ALLOWED"]

\* the PIN of the account only
PinVerifyLegacy(req) ==
  IF req.userId \notin 1..Len(users) \/ Falsy(users[req.userId].pinHash)
  THEN Deny(req, 400, "PIN not set for this user")
  ELSE IF ~comparePIN(users[req.userId], req.pin)
       THEN Deny(req, 401, "Invalid PIN")
       ELSE [req EXCEPT !.pc = "ALLOWED", !.guard = "ALLOWED"]

PinVerify ==
  /\ dl.pc = "PinVerify"
  /\ dl.handler = "perFile"
  /\ dl' = PinVerifyPerFile([dl EXCEPT !.trail = Append(@, "PinVerify")])
  /\ UNCHANGED <<ENCRYPT_KEY, users, documents, blobs, uploaded, pinSet, cr>>

PinVerifyLegacyStep ==
  /\ dl.pc = "PinVerify"
  /\ dl.handler = "legacy"
  /\ dl' = PinVerifyLegacy([dl EXCEPT !.trail = Append(@, "PinVerify")])
  /\ UNCHANGED <<ENCRYPT_KEY, users, documents, blobs, uploaded, pinSet, cr>>

\* the decrypted file, or the error decryptFile threw
SendDecrypted(req, decryptedFile) ==
  IF ~decryptedFile.ok
  THEN errorHandler(req, decryptedFile.error)
  ELSE [req EXCEPT !.pc = "done", !.status = 200, !.body = decryptedFile.bytes,
                   !.log = Append(@, Line(
                     "[DOWNLOAD] User ${req.userId} downloaded file: ${document.originalFilename}",
                     <<<<ToString(req.userId)>>, req.document.originalFilename>>))]

\* the handler reading the file without asking fs.existsSync first:
\* readFileSync throws for a file that is not there
ReadAndDecrypt_noExistsSync ==
  /\ dl.pc = "ALLOWED"
  /\ dl' = IF ~existsSync(dl.document.filePath)
           THEN errorHandler([dl EXCEPT !.trail = Append(@, "readFileSync")],
                             "ENOENT: no such file or directory")
           ELSE SendDecrypted(
                  [dl EXCEPT !.trail = @ \o <<"readFileSync", "decryptFile">>],
                  decryptFile(ENCRYPT_KEY, readFileSync(dl.document.filePath),
                              dl.document.encryptedKey, dl.document.encryptedIV))
  /\ UNCHANGED <<ENCRYPT_KEY, users, documents, blobs, uploaded, pinSet, cr>>

\* read the encrypted file from disk, decrypt it, send it
ReadAndDecrypt ==
  /\ dl.pc = "ALLOWED"
  /\ dl' = IF ~existsSync(dl.document.filePath)
           THEN [dl EXCEPT !.pc = "done", !.status = 404,
                           !.message = "File not found on server",
                           !.trail = Append(@, "existsSync")]
           ELSE SendDecrypted(
                  [dl EXCEPT !.trail = @ \o <<"existsSync", "readFileSync", "decryptFile">>],
                  decryptFile(ENCRYPT_KEY, readFileSync(dl.document.filePath),
                              dl.document.encryptedKey, dl.document.encryptedIV))
  /\ UNCHANGED <<ENCRYPT_KEY, users, documents, blobs, uploaded, pinSet, cr>>

(***************************************************************************)
(* The vault: every request of every registered user, in any order; the    *)
(* other requests may be handled while a download is between two checks.   *)
(* Spec has the routes with the per-file PIN, SpecLegacy the routes        *)
(* without it.                                                             *)
(***************************************************************************)
Init ==
  /\ ENCRYPT_KEY = HexSecret
  /\ VaultEmpty
  /\ dl = DlIdle
  /\ cr = CrIdle

Common ==
  \/ Register
  \/ \E u \in 1..MaxUsers, pin \in SetPinInputs, salt \in Salts : SetPin(u, pin, salt)
  \/ \E u \in 1..MaxUsers, id \in 1..MaxDocs : Delete(u, id)
  \/ PinRequiredCheck
  \/ PinSuppliedCheck
  \/ ReadAndDecrypt

Next ==
  \/ Common
  \/ \E u \in 1..MaxUsers, c \in UploadCalls, requiresPIN \in {"true", "false"},
        pin \in BodyPins, f \in uniqueFilenames, salt \in Salts :
          Upload(u, c, requiresPIN, pin, f, salt)
  \/ \E u \in 1..MaxUsers, id \in 1..MaxDocs, pin \in QueryPins :
        OwnershipCheck(u, id, pin, "perFile")
  \/ PinVerify

Spec == Init /\ [][Next]_vars

NextLegacy ==
  \/ Common
  \/ \E u \in 1..MaxUsers, c \in UploadCalls, requiresPIN \in {"true", "false"},
        f \in uniqueFilenames : UploadLegacy(u, c, requiresPIN, f)
  \/ \E u \in 1..MaxUsers, id \in 1..MaxDocs, pin \in QueryPins :
        OwnershipCheck(u, id, pin, "legacy")
  \/ PinVerifyLegacyStep

SpecLegacy == Init /\ [][NextLegacy]_vars

(***************************************************************************)
(* Specification of the two pure functions: encryptFile on a drawn buffer, *)
(* then decryptFile on what it returned.                                   *)
(***************************************************************************)
InitCrypto ==
  /\ ENCRYPT_KEY \in Secrets
  /\ VaultEmpty
  /\ dl = DlIdle
  /\ cr = CrIdle

CryptoEncrypt ==
  /\ cr.pc \in {"idle", "decrypted"}
  /\ \E x \in FileBuffers, fileKey \in generateFileKey, fileIV \in generateIV :
       cr' = [pc |-> "encrypted", x |-> x,
              out |-> encryptFile(ENCRYPT_KEY, x, fileKey, fileIV), dec |-> Err(<<>>)]
  /\ UNCHANGED <<ENCRYPT_KEY, users, documents, blobs, uploaded, pinSet, dl>>

CryptoDecrypt ==
  /\ cr.pc = "encrypted"
  /\ cr.out.ok
  /\ cr' = [cr EXCEPT !.pc = "decrypted",
                      !.dec = decryptFile(ENCRYPT_KEY, cr.out.encryptedFile,
                                          cr.out.encryptedKey, cr.out.encryptedIV)]
  /\ UNCHANGED <<ENCRYPT_KEY, users, documents, blobs, uploaded, pinSet, dl>>

NextCrypto == CryptoEncrypt \/ CryptoDecrypt

SpecCrypto == InitCrypto /\ [][NextCrypto]_vars

\* C1: decryptFile applied to the three values returned by encryptFile(x)
\* returns exactly x, for the empty, the single-byte and the multi-block x
C1_RoundTrip ==
  cr.pc = "decrypted" => (cr.dec.ok /\ cr.dec.bytes = cr.x)

C1_Witness ==
  /\ cr.pc = "decrypted"
  /\ Len(cr.x) > BlockLen
  /\ cr.dec.bytes = cr.x
  /\ cr.out.encryptedFile # cr.x

(***************************************************************************)
(* The download guard: vocabulary of the properties.                       *)
(***************************************************************************)
PinRequiredSignal == "PIN required to download this file"
InvalidPinSignals == {"Invalid PIN for this file", "Invalid PIN"}
NotFoundSignal == "File not found"

GuardChecks == <<"OwnershipCheck", "PinRequiredCheck", "PinSuppliedCheck", "PinVerify">>
BlobSteps == {"existsSync", "readFileSync", "decryptFile"}
IsBlobStep(step) == step \in BlobSteps
IsGuardCheck(step) == step \notin BlobSteps
ChecksOf(trail) == SelectSeq(trail, IsGuardCheck)
BlobStepsOf(trail) == SelectSeq(trail, IsBlobStep)
IsPrefix(s, t) == Len(s) <= Len(t) /\ SubSeq(t, 1, Len(s)) = s

\* the request has just taken the step it was waiting at
Took(step) == dl.pc = step /\ dl' # dl
\* the document the request is about has no per-file hash
NoPerFileHash == Falsy(Prop(dl.document, "pinHash"))

\* C2: a download answers with a body only to the user who uploaded the
\* document, whatever PIN the request carries
C2_Ownership ==
  [][(dl' # dl /\ (dl'.status = 200 \/ dl'.body # <<>>))
       => uploaded[dl'.id].userId = dl'.userId]_vars

\* a user who did not upload a PIN-protected document asked for it with the
\* account PIN of its owner and was told the file does not exist
C2_Witness ==
  /\ dl.pc = "done"
  /\ dl.status = 404
  /\ dl.message = NotFoundSignal
  /\ dl.id \in 1..Len(uploaded)
  /\ uploaded[dl.id].userId \notin {0, dl.userId}
  /\ documents[dl.id].requiresPIN
  /\ ~Falsy(dl.pin)
  /\ dl.pin = pinSet[uploaded[dl.id].userId]

\* the PIN document id was uploaded with (Undefined: none)
PerFilePin(id) == uploaded[id].pin

\* C3: for a document uploaded with requiresPIN and a per-file PIN p, the
\* owner's download is allowed exactly when it supplies p and then returns
\* the uploaded bytes, is denied with an invalid-PIN signal for every other
\* PIN, and with the PIN-required signal when it supplies none
C3_PerFilePin ==
  [][/\ (Took("PinSuppliedCheck") /\ PerFilePin(dl.id) # Undefined /\ Falsy(dl.pin))
          => (dl'.guard = "DENIED" /\ dl'.message = PinRequiredSignal)
     /\ (Took("PinVerify") /\ PerFilePin(dl.id) # Undefined)
          => IF dl.pin = PerFilePin(dl.id)
             THEN dl'.guard = "ALLOWED"
             ELSE dl'.guard = "DENIED" /\ dl'.message \in InvalidPinSignals
     /\ (Took("ALLOWED") /\ PerFilePin(dl.id) # Undefined /\ dl'.status = 200)
          => dl'.body = uploaded[dl.id].fileBuffer]_vars

\* C4: for a document uploaded with a per-file PIN whose owner has set a
\* different account PIN, a download supplying the account PIN is denied
C4_PinPrecedence ==
  [][(/\ Took("PinVerify")
      /\ PerFilePin(dl.id) # Undefined
      /\ pinSet[dl.userId] # Undefined
      /\ pinSet[dl.userId] # PerFilePin(dl.id)
      /\ dl.pin = pinSet[dl.userId])
       => dl'.guard = "DENIED"]_vars

\* C5: for a document with requiresPIN and no per-file hash, the PIN check
\* allows the owner's download exactly when the supplied PIN is the PIN the
\* owner set last, and denies it for every other PIN
C5_AccountPinFallback ==
  [][(Took("PinVerify") /\ NoPerFileHash)
       => /\ dl'.guard \in {"ALLOWED", "DENIED"}
          /\ dl'.guard = "ALLOWED" <=> dl.pin = pinSet[dl.userId]]_vars

\* a download allowed by the account PIN, after a wrong PIN is possible too
C5_Witness ==
  /\ dl.guard = "ALLOWED"
  /\ dl.document.requiresPIN
  /\ NoPerFileHash
  /\ ChecksOf(dl.trail) = GuardChecks
  /\ dl.pin = pinSet[dl.userId]
  /\ dl.pin = Pin9999

\* C6: when neither the document nor the account of its owner has a PIN
\* hash, the PIN check denies the download, whatever PIN is supplied
C6_FailClosed ==
  [][(Took("PinVerify") /\ NoPerFileHash /\ Falsy(users[dl.userId].pinHash))
       => dl'.guard = "DENIED"]_vars

\* a PIN was supplied for a PIN-protected document with no hash anywhere,
\* and the download was denied
C6_Witness ==
  /\ dl.pc = "done"
  /\ dl.guard = "DENIED"
  /\ IsRow(dl.document)
  /\ dl.document.requiresPIN
  /\ NoPerFileHash
  /\ Falsy(users[dl.userId].pinHash)
  /\ dl.pin \in Pins
  /\ dl.trail = GuardChecks

\* C7: a denied download has neither looked for nor read the blob nor called
\* decryptFile; these happen only with the guard at ALLOWED, after every
\* check of the guard
C7_FailFast ==
  /\ dl.guard = "DENIED" => BlobStepsOf(dl.trail) = <<>>
  /\ BlobStepsOf(dl.trail) # <<>> =>
       /\ dl.guard = "ALLOWED"
       /\ dl.trail = ChecksOf(dl.trail) \o BlobStepsOf(dl.trail)
  /\ dl.body # <<>> => "decryptFile" \in {dl.trail[i] : i \in 1..Len(dl.trail)}

\* a wrong PIN was denied while the blob of the document was on disk
C7_Witness ==
  /\ dl.pc = "done"
  /\ dl.guard = "DENIED"
  /\ dl.message \in InvalidPinSignals
  /\ existsSync(dl.document.filePath)
  /\ BlobStepsOf(dl.trail) = <<>>

\* the checks a request has passed are the first checks of the guard, in
\* the order of the guard, and come before every access to the blob; the
\* request is denied at the check it failed and allowed after the last one
\* it needs, and a document with requiresPIN false is allowed after
\* PinRequiredCheck
GuardOrder ==
  LET checks == ChecksOf(dl.trail)
  IN /\ IsPrefix(checks, GuardChecks)
     /\ dl.trail = checks \o BlobStepsOf(dl.trail)
     /\ dl.pc \notin {"idle", "done", "ALLOWED"} => dl.pc = GuardChecks[Len(checks) + 1]
     /\ dl.pc \in {"done", "ALLOWED"} <=> dl.guard \in {"ALLOWED", "DENIED"}
     /\ dl.guard = "DENIED" => dl.pc = "done" /\ Len(checks) \in {1, 3, 4}
     /\ dl.guard = "ALLOWED" =>
          Len(checks) = (IF dl.document.requiresPIN THEN 4 ELSE 2)
     /\ (IsRow(dl.document) /\ ~dl.document.requiresPIN /\ Len(checks) >= 2) =>
          (dl.guard = "ALLOWED" /\ checks = SubSeq(GuardChecks, 1, 2))

\* the terminal state of a request does not change before the next request
GuardTerminal ==
  (dl.guard # "" /\ dl'.guard # dl.guard) => dl'.trail = <<"OwnershipCheck">>

\* C8: every download passes OwnershipCheck, PinRequiredCheck,
\* PinSuppliedCheck and PinVerify in this order and ends in one terminal
\* state, ALLOWED or DENIED; a document with requiresPIN false is ALLOWED
\* right after PinRequiredCheck, whatever PIN the request carries
C8_GuardStateMachine == []GuardOrder /\ [][GuardTerminal]_vars

\* a document with requiresPIN false was downloaded by a request carrying a
\* PIN that no check looked at
C8_Witness ==
  /\ dl.pc = "done"
  /\ dl.status = 200
  /\ ~dl.document.requiresPIN
  /\ dl.pin \in Pins
  /\ pinSet[dl.userId] # dl.pin
  /\ ChecksOf(dl.trail) = SubSeq(GuardChecks, 1, 2)

\* C9: a PIN-protected download with no PIN, absent or empty, is denied with
\* the PIN-required signal; a denied download that supplied a PIN carries an
\* invalid-PIN signal; the PIN-required signal is no invalid-PIN signal and
\* never answers a request that supplied a non-empty PIN
C9_DenialReasons ==
  /\ PinRequiredSignal \notin InvalidPinSignals
  /\ dl.message = PinRequiredSignal => Falsy(dl.pin)
  /\ (dl.pc = "done" /\ IsRow(dl.document) /\ dl.document.requiresPIN /\ Falsy(dl.pin))
       => (dl.guard = "DENIED" /\ dl.message = PinRequiredSignal)
  /\ (dl.guard = "DENIED" /\ IsRow(dl.document) /\ ~Falsy(dl.pin))
       => dl.message \in InvalidPinSignals

\* the empty string was sent as the PIN and answered with the PIN-required
\* signal
C9_Witness ==
  /\ dl.pc = "done"
  /\ dl.guard = "DENIED"
  /\ dl.pin = <<>>
  /\ dl.message = PinRequiredSignal

\* C10: a denied download is answered with 404 when the document is not
\* found or not owned and with 403 when the denial is about the PIN, never
\* with another status
C10_DenialStatus ==
  dl.guard = "DENIED" => dl.status = (IF IsRow(dl.document) THEN 403 ELSE 404)

\* the master key the process derives from ENCRYPT_KEY
MasterKey == getMasterKey(ENCRYPT_KEY).bytes

\* C14: the IV that wraps the key and the IV that wraps the IV depend on the
\* master key and the labels 'key-encryption-iv' and 'iv-encryption-iv'
\* alone; encryptFile and decryptFile derive the same 16 bytes for each, and
\* the two labels differ
C14_WrapDeterminism ==
  getMasterKey(ENCRYPT_KEY).ok =>
    /\ keyEncryptionIV(MasterKey) = decryptKeyEncryptionIV(MasterKey)
    /\ ivEncryptionIV(MasterKey) = decryptIvEncryptionIV(MasterKey)
    /\ Len(keyEncryptionIV(MasterKey)) = IVLen
    /\ Len(ivEncryptionIV(MasterKey)) = IVLen
    /\ keyEncryptionIV(MasterKey) =
         Slice(sha256(MasterKey \o BufferFromString(KeyLabel)), 0, IVLen)
    /\ ivEncryptionIV(MasterKey) =
         Slice(sha256(MasterKey \o BufferFromString(IVLabel)), 0, IVLen)
    /\ KeyLabel # IVLabel
    /\ keyEncryptionIV(MasterKey) # ivEncryptionIV(MasterKey)

\* a buffer was encrypted and decrypted under a master key derived from a
\* passphrase, each call deriving the wrapping IVs
C14_Witness ==
  /\ cr.pc = "decrypted"
  /\ ENCRYPT_KEY = Passphrase
  /\ cr.dec.ok
  /\ Len(cr.x) > 0

\* the stored value is the bcrypt hash of this PIN, hashed once
IsHashOf(stored, pin) ==
  /\ stored # pin
  /\ \E salt \in Salts : stored = bcryptHash(pin, salt)

\* C17: the record of a document uploaded with a PIN carries a hash of that
\* PIN, which is what a download reads back; the record of a document
\* uploaded without PIN carries none
C17_PerFileHashStored ==
  \A id \in 1..Len(documents) :
    IsRow(documents[id]) =>
      IF PerFilePin(id) # Undefined
      THEN bcryptCompare(PerFilePin(id), Prop(findOne(id, documents[id].userId), "pinHash"))
      ELSE Falsy(Prop(findOne(id, documents[id].userId), "pinHash"))

\* C18: the pinHash of an account is null until the user sets a PIN and
\* from then on the bcrypt hash, computed once, of the PIN set last, never
\* the PIN itself; a stored per-file pinHash is such a hash of the PIN of
\* the upload
C18_NoPlainPins ==
  /\ \A u \in 1..Len(users) :
       IF pinSet[u] = Undefined
       THEN users[u].pinHash = Null
       ELSE IsHashOf(users[u].pinHash, pinSet[u])
  /\ \A id \in 1..Len(documents) :
       (IsRow(documents[id]) /\ ~Falsy(Prop(documents[id], "pinHash")))
         => IsHashOf(documents[id].pinHash, PerFilePin(id))

\* both users have set a PIN, and a document was uploaded with a PIN
C18_Witness ==
  /\ Len(users) = MaxUsers
  /\ pinSet[1] = Pin9999
  /\ pinSet[2] = Pin1234
  /\ users[1].pinHash # users[2].pinHash
  /\ \E id \in 1..Len(documents) : PerFilePin(id) = Pin1234

(***************************************************************************)
(* Specification of the random source: a sequence of calls of encryptFile  *)
(* in one process.  crypto.randomBytes is a cryptographically secure       *)
(* generator; a value it returns is taken to differ from every value it    *)
(* returned before (a repetition has probability 2^-256 for a key and      *)
(* 2^-128 for an IV).  cr.calls lists the calls made so far.               *)
(***************************************************************************)
MaxCalls == 2

InitFresh ==
  /\ ENCRYPT_KEY \in Secrets
  /\ VaultEmpty
  /\ dl = DlIdle
  /\ cr = [pc |-> "calls", calls |-> <<>>]

drawnKeys == {cr.calls[i].fileKey : i \in 1..Len(cr.calls)}
drawnIVs == {cr.calls[i].fileIV : i \in 1..Len(cr.calls)}

EncryptFresh ==
  /\ Len(cr.calls) < MaxCalls
  /\ \E x \in FileBuffers, fileKey \in generateFileKey \ drawnKeys,
        fileIV \in generateIV \ drawnIVs :
       cr' = [cr EXCEPT !.calls = Append(@,
                [x |-> x, fileKey |-> fileKey, fileIV |-> fileIV,
                 out |-> encryptFile(ENCRYPT_KEY, x, fileKey, fileIV)])]
  /\ UNCHANGED <<ENCRYPT_KEY, users, documents, blobs, uploaded, pinSet, dl>>

NextFresh == EncryptFresh

SpecFresh == InitFresh /\ [][NextFresh]_vars

DecisionCategory(line) ==
  CASE line.template = "[PIN] User ${req.userId} attempted download of ${document.originalFilename} without PIN"
         -> "attempted-without-pin"
    [] line.template = "[PIN] User ${req.userId} provided invalid PIN for file ${document.originalFilename}"
         -> "invalid-pin"
    [] line.template = "[PIN] User ${req.userId} provided invalid user PIN"
         -> "invalid-pin"
    [] line.template = "[PIN] User ${req.userId} provided correct PIN for file ${document.originalFilename}"
         -> "correct-pin"
    [] OTHER -> "none"

Carries(line, value) == \E i \in 1..Len(line.values) : line.values[i] = value

\* the request logged its PIN decision: one line with the category, the
\* requester's id and the document's name
LoggedDecision(category) ==
  \E i \in 1..Len(dl.log) :
    /\ DecisionCategory(dl.log[i]) = category
    /\ Carries(dl.log[i], <<ToString(dl.userId)>>)
    /\ Carries(dl.log[i], dl.document.originalFilename)

\* C19: whenever a download has decided on the PIN (missing, mismatch or
\* match), on the per-file path or on the account fallback, its console
\* output holds a line carrying the requester's id, the document's name and
\* the category of the decision
C19_LoggingContract ==
  /\ (dl.pc = "done" /\ dl.message = PinRequiredSignal)
       => LoggedDecision("attempted-without-pin")
  /\ (dl.pc = "done" /\ dl.message \in InvalidPinSignals)
       => LoggedDecision("invalid-pin")
  /\ (dl.guard = "ALLOWED" /\ \E i \in 1..Len(dl.trail) : dl.trail[i] = "PinVerify")
       => LoggedDecision("correct-pin")


(***************************************************************************)
(* Specification of getMasterKey: the process is started with some value   *)
(* of ENCRYPT_KEY (the empty string: not set) and asks for the master key. *)
(* The secrets explored: hex and other characters, lengths below, at and   *)
(* above 64, and strings of 64 characters with one character that is not   *)
(* a hex digit.                                                            *)
(***************************************************************************)
SecretLengths == {1, 2, 31, 32, 63, 64, 65, 128}
SecretSeeds == {1, 3, 5, 7}
\* 0: every character is a hex digit; otherwise the position of a "g"
OddCharAt == {0, 1, 2, 33, 64}

SecretOf(n, seed, odd) ==
  <<>> \o [i \in 1..n |-> IF i = odd THEN "g" ELSE HexDigits[(((seed * i) + 3) % 16) + 1]]

EnvSecrets ==
  {<<>>} \cup Secrets
    \cup {SecretOf(n, seed, odd) : n \in SecretLengths, seed \in SecretSeeds, odd \in OddCharAt}

\* a secret of 64 characters, the last of which is no hex digit
NonHexSecret == SecretOf(HexKeyChars, 7, HexKeyChars)

IsHexString(secret) == \A i \in 1..Len(secret) : IsHexDigit(secret[i])

InitKeys ==
  /\ ENCRYPT_KEY \in EnvSecrets
  /\ VaultEmpty
  /\ dl = DlIdle
  /\ cr = [pc |-> "start", key |-> Err(<<>>)]

\* const masterKey = getMasterKey()
LoadMasterKey ==
  /\ cr.pc = "start"
  /\ cr' = [pc |-> "key", key |-> getMasterKey(ENCRYPT_KEY)]
  /\ UNCHANGED <<ENCRYPT_KEY, users, documents, blobs, uploaded, pinSet, dl>>

NextKeys == LoadMasterKey

SpecKeys == InitKeys /\ [][NextKeys]_vars

\* C15: getMasterKey returns 32 bytes for every non-empty ENCRYPT_KEY: the
\* hex-decoded secret when it is exactly 64 hex digits, the SHA-256 digest
\* of the secret string in every other case, a secret of 64 characters that
\* are not all hex digits included; with ENCRYPT_KEY not set it throws
C15_MasterKeyDerivation ==
  cr.pc = "key" =>
    IF Len(ENCRYPT_KEY) = 0 THEN ~cr.key.ok
    ELSE /\ cr.key.ok
         /\ Len(cr.key.bytes) = KeyLen
         /\ cr.key.bytes = IF Len(ENCRYPT_KEY) = HexKeyChars /\ IsHexString(ENCRYPT_KEY)
                           THEN BufferFromHex(ENCRYPT_KEY)
                           ELSE sha256(BufferFromString(ENCRYPT_KEY))


(***************************************************************************)
(* The vault under observation: cr holds the last request other than a     *)
(* download as the client and the console saw it (who asked, for which     *)
(* id, the status and message of the response, the console lines).         *)
(***************************************************************************)
NotObserved == [pc |-> "none", userId |-> 0, id |-> 0, status |-> 0, message |-> "",
                data |-> NoDocument, log |-> <<>>]

uploadPath == <<"/api/files/", "upload">>

\* POST /upload as its client sees it: 201, or the error of encryptFile
\* passed to next(error)
UploadResponse(u, c) ==
  IF ~c.out.ok
  THEN [pc |-> "POST /upload", userId |-> u, id |-> 0, status |-> 500,
        message |-> c.out.error, data |-> NoDocument, log |-> <<requestLogger("POST", uploadPath)>>]
  ELSE [pc |-> "POST /upload", userId |-> u, id |-> Len(documents) + 1, status |-> 201,
        message |-> "File uploaded and encrypted successfully",
        data |-> [id |-> Len(documents) + 1, filename |-> originalname,
                  name |-> originalname, category |-> defaultCategory, tags |-> tagArray],
        log |-> <<requestLogger("POST", uploadPath),
                  Line("[UPLOAD] User ${userId} uploaded file: ${req.file.originalname}",
                       <<<<ToString(u)>>, originalname>>)>>]

UploadObserved(u, c, requiresPIN, pin, uniqueFilename, salt) ==
  /\ UploadWrites(u, c, requiresPIN, pin, uniqueFilename, salt)
  /\ cr' = UploadResponse(u, c)
  /\ UNCHANGED <<ENCRYPT_KEY, users, pinSet, dl>>

(***************************************************************************)
(* Specification of the failures of the cipher: between two requests the   *)
(* server may be restarted with another ENCRYPT_KEY, and a stored blob or  *)
(* a stored wrapped IV may be damaged.  Documents need no PIN here.        *)
(***************************************************************************)
\* the values of ENCRYPT_KEY a restart may bring (validateEnv refuses to
\* start without one)
RestartSecrets == Secrets \cup {NonHexSecret}

TamperCalls ==
  {[secret |-> s, fileBuffer |-> x, fileKey |-> k, fileIV |-> v,
    out |-> encryptFile(s, x, k, v)] :
     s \in RestartSecrets, x \in {b \in FileBuffers : Len(b) = 17},
     k \in {b \in generateFileKey : b[1] = 101}, v \in {b \in generateIV : b[1] = 82}}

\* positions of a blob of two blocks that get damaged.  A changed byte of the
\* first block changes the same byte of the second block of the plaintext and
\* leaves the padding as it was; a changed byte of the last block garbles the
\* padding.
DamagedAt == {1, 31}

Restart(secret) ==
  /\ dl.pc \in {"idle", "done"}
  /\ secret # ENCRYPT_KEY
  /\ ENCRYPT_KEY' = secret
  /\ UNCHANGED <<users, documents, blobs, uploaded, pinSet, dl, cr>>

\* one byte of a file of the uploads directory changes
DamageBlob(f, i) ==
  /\ blobs[f] # NoFile
  /\ i \in 1..Len(blobs[f])
  /\ blobs' = [blobs EXCEPT ![f] = [@ EXCEPT ![i] = 255 - @]]
  /\ UNCHANGED <<ENCRYPT_KEY, users, documents, uploaded, pinSet, dl, cr>>

\* the column encryptedIV of a row gets the value of another row
MismatchIV(id, other) ==
  /\ id \in 1..Len(documents) /\ other \in 1..Len(documents)
  /\ IsRow(documents[id]) /\ IsRow(documents[other])
  /\ documents[id].encryptedIV # documents[other].encryptedIV
  /\ documents' = [documents EXCEPT ![id].encryptedIV = documents[other].encryptedIV]
  /\ UNCHANGED <<ENCRYPT_KEY, users, blobs, uploaded, pinSet, dl, cr>>

InitTamper ==
  /\ ENCRYPT_KEY = HexSecret
  /\ VaultEmpty
  /\ dl = DlIdle
  /\ cr = NotObserved

NextTamper ==
  \/ Register
  \/ \E u \in 1..MaxUsers, c \in TamperCalls, f \in uniqueFilenames, salt \in Salts :
        UploadObserved(u, c, "false", Undefined, f, salt)
  \/ \E secret \in RestartSecrets : Restart(secret)
  \/ \E f \in FileNames, i \in DamagedAt : DamageBlob(f, i)
  \/ \E id \in 1..MaxDocs, other \in 1..MaxDocs : MismatchIV(id, other)
  \/ \E u \in 1..MaxUsers, id \in 1..MaxDocs : OwnershipCheck(u, id, Undefined, "perFile")
  \/ PinRequiredCheck
  \/ ReadAndDecrypt

SpecTamper == InitTamper /\ [][NextTamper]_vars

\* C16: an upload whose encryptFile throws answers with the error and leaves
\* the uploads directory and the rows of the documents as they were
C16_FailedUploadWritesNothing ==
  [][(cr' # cr /\ cr'.pc = "POST /upload" /\ cr'.status # 201)
       => UNCHANGED <<blobs, documents>>]_vars

C16_Witness ==
  /\ cr.pc = "POST /upload"
  /\ cr.status = 500
  /\ cr.message = "Invalid key length"
  /\ ENCRYPT_KEY = NonHexSecret
  /\ \E id \in 1..Len(documents) : IsRow(documents[id])

filePathOf(id) == <<"/api/files/", ToString(id)>>

\* the attributes left out by a lookup that names too few of them
ExcludedAttributes_keyOnly == {"encryptedKey"}

\* attributes: { exclude: ['encryptedKey', 'encryptedIV', 'filePath', 'pinHash'] }
ExcludedAttributes == {"encryptedKey", "encryptedIV", "filePath", "pinHash"}

\* attributes: { exclude: ['encryptedKey', 'encryptedIV', 'filePath'] } of fileRoutes.js
ExcludedLegacy == {"encryptedKey", "encryptedIV", "filePath"}

\* document.get({ plain: true }) of a row read without the excluded attributes;
\* plain.name = plain.displayName || plain.originalFilename, and the model
\* has no attribute displayName
Plain(document, id, excluded) ==
  [a \in ((DOMAIN document) \ excluded) \cup {"id", "name"} |->
     IF a = "id" THEN id
     ELSE IF a = "name" THEN document.originalFilename
     ELSE document[a]]

\* the row as res.json writes it, without a name
Json(document, id, excluded) ==
  [a \in ((DOMAIN document) \ excluded) \cup {"id"} |->
     IF a = "id" THEN id ELSE document[a]]

\* GET /:id answering 403 for the row of another user
GetFileResponse_forbidden(u, id, pin) ==
  LET document == findOne(id, u)
      log == <<requestLogger("GET", originalUrl(filePathOf(id), pin))>>
  IN IF IsRow(document)
     THEN [pc |-> "GET /:id", userId |-> u, id |-> id, status |-> 200, message |-> "",
           data |-> Plain(document, id, ExcludedAttributes),
           log |-> log]
     ELSE IF id \in 1..Len(documents) /\ IsRow(documents[id])
     THEN [pc |-> "GET /:id", userId |-> u, id |-> id, status |-> 403,
           message |-> "Access denied", data |-> NoDocument, log |-> log]
     ELSE [pc |-> "GET /:id", userId |-> u, id |-> id, status |-> 404,
           message |-> "File not found", data |-> NoDocument, log |-> log]

GetFileResponse(u, id, pin) ==
  LET document == findOne(id, u)
      log == <<requestLogger("GET", originalUrl(filePathOf(id), pin))>>
  IN IF ~IsRow(document)
     THEN [pc |-> "GET /:id", userId |-> u, id |-> id, status |-> 404,
           message |-> "File not found", data |-> NoDocument, log |-> log]
     ELSE [pc |-> "GET /:id", userId |-> u, id |-> id, status |-> 200, message |-> "",
           data |-> Plain(document, id, ExcludedAttributes),
           log |-> log]

GetFileObserved(u, id, pin) ==
  /\ u \in 1..Len(users)
  /\ cr' = GetFileResponse(u, id, pin)
  /\ UNCHANGED <<ENCRYPT_KEY, users, documents, blobs, uploaded, pinSet, dl>>

DeleteResponse(u, id, pin) ==
  LET document == findOne(id, u)
      log == <<requestLogger("DELETE", originalUrl(filePathOf(id), pin))>>
  IN IF ~IsRow(document)
     THEN [pc |-> "DELETE /:id", userId |-> u, id |-> id, status |-> 404,
           message |-> "File not found", data |-> NoDocument, log |-> log]
     ELSE [pc |-> "DELETE /:id", userId |-> u, id |-> id, status |-> 200,
           message |-> "File deleted successfully", data |-> NoDocument,
           log |-> Append(log, Line(
             "[DELETE] User ${req.userId} deleted file: ${document.originalFilename}",
             <<<<ToString(u)>>, document.originalFilename>>))]

DeleteObserved(u, id, pin) ==
  /\ DeleteWrites(u, id)
  /\ cr' = DeleteResponse(u, id, pin)
  /\ UNCHANGED <<ENCRYPT_KEY, users, pinSet, dl>>

\* part occurs in value, element by element
Contains(value, part) ==
  \E k \in 0..(Len(value) - Len(part)) : SubSeq(value, k + 1, k + Len(part)) = part

(***************************************************************************)
(* The list and search endpoints.  A stored file name is written as the    *)
(* sequence of its parts; the strings explored are in lower case, on which *)
(* iLike and like agree.                                                   *)
(***************************************************************************)
filenameString(uniqueFilename) ==
  <<ToString(uniqueFilename[1]), "-", uniqueFilename[2], ".pdf", ".enc">>

\* { [Op.iLike]: `%${q}%` }
iLike(value, q) == Contains(value, q)

\* the q, category and tag of a query; Undefined: not sent
Queries == {Undefined, <<"r", "e", "p">>, <<"x7k2q">>, <<"z">>}
Categories == {Undefined, <<"Other">>, <<"Work">>}
Tags == {Undefined, <<"t">>}

\* the ids of the rows of Document.findAll({ where: whereClause })
findAll(u, q, cat, tag) ==
  {id \in 1..Len(documents) :
     /\ IsRow(documents[id])
     /\ documents[id].userId = u
     /\ Falsy(q) \/ iLike(filenameString(documents[id].filename), q)
                 \/ iLike(documents[id].originalFilename, q)
                 \/ iLike(documents[id].tags, q)
     /\ Falsy(cat) \/ documents[id].category = cat
     /\ Falsy(tag) \/ iLike(documents[id].tags, tag)}

\* order: [['uploadedAt', 'DESC']]: the newest row first
RECURSIVE Descending(_)
Descending(ids) ==
  IF ids = {} THEN <<>>
  ELSE LET newest == CHOOSE x \in ids : \A y \in ids : y <= x
       IN <<newest>> \o Descending(ids \ {newest})

searchPath == <<"/api/search">>
listPath == <<"/api/files">>

\* GET /api/search
SearchResponse(u, q, cat, tag) ==
  LET log == <<requestLogger("GET", searchPath)>>
      ids == Descending(findAll(u, q, cat, tag))
  IN IF Falsy(q) /\ Falsy(cat) /\ Falsy(tag)
     THEN [pc |-> "GET /api/search", userId |-> u, id |-> 0, status |-> 400,
           message |-> "Please provide a search query, category, or tag",
           data |-> NoDocument, log |-> log]
     ELSE [pc |-> "GET /api/search", userId |-> u, id |-> 0, status |-> 200, message |-> "",
           data |-> [documents |-> [k \in 1..Len(ids) |->
                       Plain(documents[ids[k]], ids[k], ExcludedAttributes)]],
           log |-> log]

SearchObserved(u, q, cat, tag) ==
  /\ u \in 1..Len(users)
  /\ cr' = SearchResponse(u, q, cat, tag)
  /\ UNCHANGED <<ENCRYPT_KEY, users, documents, blobs, uploaded, pinSet, dl>>

\* GET /api/files
ListResponse(u, cat, tag) ==
  LET ids == Descending(findAll(u, Undefined, cat, tag))
  IN [pc |-> "GET /", userId |-> u, id |-> 0, status |-> 200, message |-> "",
      data |-> [documents |-> [k \in 1..Len(ids) |->
                  Plain(documents[ids[k]], ids[k], ExcludedAttributes)]],
      log |-> <<requestLogger("GET", listPath)>>]

ListObserved(u, cat, tag) ==
  /\ u \in 1..Len(users)
  /\ cr' = ListResponse(u, cat, tag)
  /\ UNCHANGED <<ENCRYPT_KEY, users, documents, blobs, uploaded, pinSet, dl>>

\* GET /api/files and GET /api/files/:id of fileRoutes.js
ListLegacyResponse(u, cat, tag) ==
  LET ids == Descending(findAll(u, Undefined, cat, tag))
  IN [pc |-> "GET / (fileRoutes.js)", userId |-> u, id |-> 0, status |-> 200,
      message |-> "",
      data |-> [documents |-> [k \in 1..Len(ids) |->
                  Json(documents[ids[k]], ids[k], ExcludedLegacy)]],
      log |-> <<requestLogger("GET", listPath)>>]

ListLegacyObserved(u, cat, tag) ==
  /\ u \in 1..Len(users)
  /\ cr' = ListLegacyResponse(u, cat, tag)
  /\ UNCHANGED <<ENCRYPT_KEY, users, documents, blobs, uploaded, pinSet, dl>>

GetFileLegacyResponse(u, id) ==
  LET document == findOne(id, u)
      log == <<requestLogger("GET", filePathOf(id))>>
  IN IF ~IsRow(document)
     THEN [pc |-> "GET /:id (fileRoutes.js)", userId |-> u, id |-> id, status |-> 404,
           message |-> "File not found", data |-> NoDocument, log |-> log]
     ELSE [pc |-> "GET /:id (fileRoutes.js)", userId |-> u, id |-> id, status |-> 200,
           message |-> "", data |-> Json(document, id, ExcludedLegacy), log |-> log]

GetFileLegacyObserved(u, id) ==
  /\ u \in 1..Len(users)
  /\ cr' = GetFileLegacyResponse(u, id)
  /\ UNCHANGED <<ENCRYPT_KEY, users, documents, blobs, uploaded, pinSet, dl>>

(***************************************************************************)
(* Specification of the requests under observation: the routes with the    *)
(* per-file PIN, every request seen with its response and console lines.   *)
(* One more id than there can be rows is asked for.                        *)
(***************************************************************************)
RequestIds == 1..(MaxDocs + 1)

RequestCalls == {c \in UploadCalls : Len(c.fileBuffer) = 17}

NextRequests ==
  \/ Register
  \/ \E u \in 1..MaxUsers, salt \in Salts : SetPin(u, Pin1234, salt)
  \/ \E u \in 1..MaxUsers, c \in RequestCalls, requiresPIN \in {"true", "false"},
        f \in uniqueFilenames, salt \in Salts :
          UploadObserved(u, c, requiresPIN,
                         IF IsTrue(requiresPIN) THEN Pin9999 ELSE Undefined, f, salt)
  \/ \E u \in 1..MaxUsers, id \in RequestIds, pin \in {Undefined, Pin1234} :
        GetFileObserved(u, id, pin)
  \/ \E u \in 1..MaxUsers, id \in RequestIds, pin \in {Undefined, Pin1234} :
        DeleteObserved(u, id, pin)
  \/ \E u \in 1..MaxUsers : ListObserved(u, Undefined, Undefined)
  \/ \E u \in 1..MaxUsers : SearchObserved(u, <<"r", "e", "p">>, Undefined, Undefined)
  \/ \E u \in 1..MaxUsers, id \in RequestIds, pin \in {Undefined} \cup Pins :
        OwnershipCheck(u, id, pin, "perFile")
  \/ PinRequiredCheck
  \/ PinSuppliedCheck
  \/ PinVerify
  \/ ReadAndDecrypt

InitRequests ==
  /\ ENCRYPT_KEY = HexSecret
  /\ VaultEmpty
  /\ dl = DlIdle
  /\ cr = NotObserved

SpecRequests == InitRequests /\ [][NextRequests]_vars


\* the row with this id exists and belongs to the user
Owns(u, id) == id \in 1..Len(documents) /\ IsRow(documents[id]) /\ documents[id].userId = u

\* C12: a download, metadata or delete request for an id whose row is not
\* the requester's gets one and the same response, 404 'File not found' and
\* nothing else, whether the row belongs to another user or does not exist,
\* whatever PIN is sent and whatever the row's requiresPIN and hashes are;
\* and it changes nothing
C12_NoExistenceLeak ==
  [][/\ (dl' # dl /\ dl.pc \in {"idle", "done"} /\ ~Owns(dl'.userId, dl'.id))
          => /\ dl'.pc = "done"
             /\ dl'.status = 404
             /\ dl'.message = NotFoundSignal
             /\ dl'.body = <<>>
     /\ (cr' # cr /\ cr'.pc \in {"GET /:id", "DELETE /:id"} /\ ~Owns(cr'.userId, cr'.id))
          => /\ cr'.status = 404
             /\ cr'.message = NotFoundSignal
             /\ cr'.data = NoDocument
             /\ UNCHANGED <<documents, blobs>>]_vars

\* both cases at once: a download, with a PIN, of a PIN-protected row of
\* another user, and a metadata request for an id that no row ever had
C12_Witness ==
  /\ dl.pc = "done" /\ dl.status = 404 /\ ~Falsy(dl.pin)
  /\ dl.id \in 1..Len(documents) /\ IsRow(documents[dl.id])
  /\ documents[dl.id].userId # dl.userId
  /\ documents[dl.id].requiresPIN
  /\ cr.pc = "GET /:id" /\ cr.status = 404
  /\ cr.id > Len(documents)

(***************************************************************************)
(* What the console may show: the time, the method and the path of a       *)
(* request, the id of a user, the name of a file.                          *)
(***************************************************************************)
Methods == {"GET", "POST", "DELETE"}

IdentifyingMetadata ==
  {toISOString, originalname, uploadPath, searchPath, listPath}
    \cup {<<m>> : m \in Methods}
    \cup {<<ToString(u)>> : u \in 1..MaxUsers}
    \cup {downloadPath(id) : id \in RequestIds}
    \cup {filePathOf(id) : id \in RequestIds}

\* the strings that must not be shown: the PINs that are sent, the hashes
\* stored for them, the secret the master key is made of
SecretStrings ==
  Pins \cup {PinShort} \cup {ENCRYPT_KEY}
    \cup {bcryptHash(pin, salt) : pin \in Pins, salt \in Salts}
    \cup {users[u].pinHash : u \in {v \in 1..Len(users) : ~Falsy(users[v].pinHash)}}

ConsoleLines == dl.log \o cr.log

\* C20: no line written by the upload, download and delete handlers or by
\* the request logger shows a PIN that was sent, a PIN hash or the master
\* secret, and every value a line shows is the time, the method or path of
\* the request, a user id or a file name, so that no key, IV or wrapped key
\* is shown either
C20_NoSecretsInLogs ==
  \A i \in 1..Len(ConsoleLines) : \A j \in 1..Len(ConsoleLines[i].values) :
    /\ ConsoleLines[i].values[j] \in IdentifyingMetadata
    /\ \A secret \in SecretStrings : ~Contains(ConsoleLines[i].values[j], secret)

\* a download with the right PIN in its URL was logged to its end, and an
\* upload with a PIN in its body was logged
C20_Witness ==
  /\ dl.pc = "done" /\ dl.status = 200 /\ dl.pin = Pin1234
  /\ Len(dl.log) >= 3
  /\ cr.pc = "POST /upload" /\ cr.status = 201
  /\ uploaded[cr.id].pin = Pin9999


\* C29: every document whose upload made a per-file PIN hash, and every row
\* that carries one, has requiresPIN true; no upload makes a hash for a
\* document that does not require a PIN
C29_HashImpliesPinGate ==
  \A id \in 1..Len(documents) :
    (IsRow(documents[id])
       /\ (~Falsy(uploaded[id].pinHash) \/ ~Falsy(Prop(documents[id], "pinHash"))))
      => documents[id].requiresPIN

\* an upload with a PIN that requires it, and one with a PIN that does not
C29_Witness ==
  /\ Len(documents) = 2
  /\ IsRow(documents[1]) /\ IsRow(documents[2])
  /\ uploaded[1].pinHash = bcryptHash(Pin1234, "salt1")
  /\ documents[1].requiresPIN
  /\ ~documents[2].requiresPIN
  /\ Falsy(uploaded[2].pinHash)


(***************************************************************************)
(* Specification of the metadata endpoints: uploads and deletes of two     *)
(* users, and every list, search and metadata request of either.           *)
(***************************************************************************)
NextMetadata ==
  \/ Register
  \/ \E u \in 1..MaxUsers, c \in RequestCalls, requiresPIN \in {"true", "false"},
        f \in uniqueFilenames, salt \in Salts :
          UploadObserved(u, c, requiresPIN,
                         IF IsTrue(requiresPIN) THEN Pin9999 ELSE Undefined, f, salt)
  \/ \E u \in 1..MaxUsers, id \in RequestIds : DeleteObserved(u, id, Undefined)
  \/ \E u \in 1..MaxUsers, id \in RequestIds : GetFileObserved(u, id, Undefined)
  \/ \E u \in 1..MaxUsers, id \in RequestIds : GetFileLegacyObserved(u, id)
  \/ \E u \in 1..MaxUsers, cat \in Categories, tag \in Tags : ListObserved(u, cat, tag)
  \/ \E u \in 1..MaxUsers, cat \in Categories, tag \in Tags : ListLegacyObserved(u, cat, tag)
  \/ \E u \in 1..MaxUsers, q \in Queries, cat \in Categories, tag \in Tags :
        SearchObserved(u, q, cat, tag)

SpecMetadata == InitRequests /\ [][NextMetadata]_vars

\* the documents a response shows
Shown(response) ==
  IF "documents" \in DOMAIN response.data
  THEN {response.data.documents[k] : k \in 1..Len(response.data.documents)}
  ELSE IF "id" \in DOMAIN response.data THEN {response.data}
  ELSE {}

\* C21: every document in a response of the list, metadata, search and
\* upload endpoints is a row of the requester, and none shows encryptedKey,
\* encryptedIV, filePath or pinHash
C21_MetadataHidesKeys ==
  \A d \in Shown(cr) :
    /\ DOMAIN d \cap {"encryptedKey", "encryptedIV", "filePath", "pinHash"} = {}
    /\ Owns(cr.userId, d.id)

\* a search by one user that finds their PIN-protected document while the
\* other user has a document that matches as well
C21_Witness ==
  /\ cr.pc = "GET /api/search" /\ cr.status = 200
  /\ Len(cr.data.documents) = 1
  /\ cr.data.documents[1].requiresPIN
  /\ \E id \in 1..Len(documents) :
       IsRow(documents[id]) /\ documents[id].userId # cr.userId


\* C30: while a row exists no request changes it (its owner, requiresPIN,
\* hashes, encryptedKey, encryptedIV, filePath); it goes only by a successful
\* delete request of its owner for its id; and no step of a download changes
\* a row, a blob or a user
C30_ProtectionFixed ==
  [][/\ \A id \in 1..Len(documents) :
          IsRow(documents[id]) =>
            \/ documents'[id] = documents[id]
            \/ /\ ~IsRow(documents'[id])
               /\ cr'.pc = "DELETE /:id" /\ cr'.status = 200
               /\ cr'.id = id /\ cr'.userId = documents[id].userId
     /\ dl' # dl => UNCHANGED <<documents, blobs, users>>]_vars

\* the first document is as uploaded after its owner set a PIN and
\* downloaded it, another document came and went, and a search was made
C30_Witness ==
  /\ Len(documents) = 2
  /\ IsRow(documents[1]) /\ documents[1].requiresPIN
  /\ ~IsRow(documents[2])
  /\ pinSet[documents[1].userId] = Pin1234
  /\ dl.pc = "done" /\ dl.status = 200 /\ dl.id = 1
  /\ cr.pc = "GET /api/search"

\* C22: a delete request that reports success was the owner's and has removed
\* the row and the file; a row once removed never comes back, so that every
\* later download or metadata request for the id answers 404; every other
\* delete request answers 404 and leaves rows and files as they were
C22_DeleteRemovesBoth ==
  [][/\ (cr' # cr /\ cr'.pc = "DELETE /:id")
          => IF cr'.status = 200
             THEN /\ Owns(cr'.userId, cr'.id)
                  /\ ~IsRow(documents'[cr'.id])
                  /\ blobs'[documents[cr'.id].filePath[2]] = NoFile
             ELSE /\ cr'.status = 404
                  /\ ~Owns(cr'.userId, cr'.id)
                  /\ UNCHANGED <<documents, blobs>>
     /\ \A id \in 1..Len(documents) : ~IsRow(documents[id]) => ~IsRow(documents'[id])
     /\ (dl' # dl /\ dl.pc \in {"idle", "done"}
           /\ dl'.id \in 1..Len(documents) /\ ~IsRow(documents[dl'.id]))
          => dl'.status = 404
     /\ (cr' # cr /\ cr'.pc = "GET /:id"
           /\ cr'.id \in 1..Len(documents) /\ ~IsRow(documents[cr'.id]))
          => cr'.status = 404]_vars

\* after the owner's delete of a document the owner's download of it answered
\* 404, and a delete by the other user of the document that is left did too
C22_Witness ==
  /\ Len(documents) = 2
  /\ ~IsRow(documents[1]) /\ IsRow(documents[2])
  /\ dl.pc = "done" /\ dl.status = 404 /\ dl.id = 1
  /\ cr.pc = "DELETE /:id" /\ cr.status = 404 /\ cr.id = 2
  /\ cr.userId # documents[2].userId
  /\ existsSync(documents[2].filePath)


\* the PIN check of a download of the document by its owner lets pin pass
Unlocks(id, pin) ==
  PinVerifyPerFile([DlIdle EXCEPT !.userId = documents[id].userId, !.id = id,
                                  !.pin = pin, !.document = documents[id]]).guard = "ALLOWED"

RECURSIVE trimStart(_)
trimStart(str) ==
  IF Len(str) > 0 /\ str[1] = " " THEN trimStart(Tail(str)) ELSE str

RECURSIVE trimEnd(_)
trimEnd(str) ==
  IF Len(str) > 0 /\ str[Len(str)] = " " THEN trimEnd(SubSeq(str, 1, Len(str) - 1)) ELSE str

\* String.prototype.trim
trim(str) == trimEnd(trimStart(str))

Spaced(pin) == <<" ">> \o pin \o <<" ">>

\* what the user does with the prompt
Prompted == {Null, <<>>, <<" ">>, Pin1234, Pin9999, Spaced(Pin1234), Spaced(Pin9999)}

\* fetchFileBlob(file.id, pin): GET /files/:id/download with the PIN as typed
fetchFileBlob(u, id, pin) ==
  OwnershipCheck(u, id, IF Falsy(pin) THEN Undefined ELSE pin, "perFile")

\* FileCard.handleDownload, on a file of the user's list
handleDownload(u, id, typed) ==
  /\ Owns(u, id)
  /\ IF documents[id].requiresPIN
     THEN /\ ~Falsy(typed)
          /\ fetchFileBlob(u, id, typed)
     ELSE fetchFileBlob(u, id, Null)

\* PreviewModal.loadPreview, on a file of the user's list
loadPreview(u, id, typed) ==
  /\ Owns(u, id)
  /\ IF documents[id].requiresPIN
     THEN /\ typed # Null
          /\ ~(Falsy(typed) \/ trim(typed) = <<>>)
          /\ fetchFileBlob(u, id, typed)
     ELSE fetchFileBlob(u, id, Null)

NextPrompt ==
  \/ Register
  \/ \E u \in 1..MaxUsers, pin \in Pins, salt \in Salts : SetPin(u, pin, salt)
  \/ \E u \in 1..MaxUsers, c \in RequestCalls, requiresPIN \in {"true", "false"},
        f \in uniqueFilenames, salt \in Salts :
          Upload(u, c, requiresPIN, IF IsTrue(requiresPIN) THEN Pin1234 ELSE Undefined,
                 f, salt)
  \/ \E u \in 1..MaxUsers, id \in 1..MaxDocs, typed \in Prompted : handleDownload(u, id, typed)
  \/ \E u \in 1..MaxUsers, id \in 1..MaxDocs, typed \in Prompted : loadPreview(u, id, typed)
  \/ PinRequiredCheck
  \/ PinSuppliedCheck
  \/ PinVerify
  \/ ReadAndDecrypt

SpecPrompt == Init /\ [][NextPrompt]_vars

\* C23: a PIN typed into the download or preview prompt that is the right
\* PIN once its spaces are trimmed was sent without the spaces, and the
\* PIN check lets the request pass
C23_PinTrimmed ==
  [][(Took("PinVerify") /\ trim(dl.pin) = pinSet[dl.userId])
       => (dl.pin = trim(dl.pin) /\ dl'.guard = "ALLOWED")]_vars


(***************************************************************************)
(* Requests between two awaits.  A handler runs without interruption from  *)
(* one await to the next: POST /upload encrypts, names the file and writes *)
(* the blob, then awaits Document.create; DELETE /:id awaits findOne, then *)
(* unlinks the blob, then awaits document.destroy().  Other requests are   *)
(* handled while a request waits.  cr holds the requests that wait, the    *)
(* clock Date.now() reads and the number of uploads begun.                 *)
(***************************************************************************)
MaxInflight == 2
Slots == 1..MaxInflight

Free == [pc |-> "free", userId |-> 0, id |-> 0, values |-> NoDocument,
         history |-> NoUpload, status |-> 0, message |-> ""]

Inflight == [pc |-> "inflight", now |-> 1, started |-> 0, reqs |-> [p \in Slots |-> Free]]

InitInflight ==
  /\ ENCRYPT_KEY = HexSecret
  /\ VaultEmpty
  /\ dl = DlIdle
  /\ cr = Inflight

\* res.status(status).json({ success, message }): the request is over and
\* only its answer remains
Answer(req, status, message) ==
  [Free EXCEPT !.pc = "done", !.userId = req.userId,
               !.status = status, !.message = message]

\* a request that arrives is held in the first place that holds no request
\* between two awaits
Vacant(p) ==
  /\ cr.reqs[p].pc \in {"free", "done"}
  /\ \A q \in 1..(p - 1) : cr.reqs[q].pc \notin {"free", "done"}

\* POST /upload up to `await Document.create`: encryptFile, the name from
\* Date.now() and Math.random(), fs.writeFileSync; `elapsed` is the time that
\* passes before the next upload reads the clock
UploadStart(p, u, c, requiresPIN, pin, suffix, salt, elapsed) ==
  /\ Vacant(p)
  /\ u \in 1..Len(users)
  /\ cr.started < MaxDocs
  /\ cr.now \in 1..MaxDocs
  /\ c.secret = ENCRYPT_KEY
  /\ LET uniqueFilename == <<cr.now, suffix>>
         req == [Free EXCEPT !.userId = u]
     IN IF ~c.out.ok
        THEN /\ cr' = [cr EXCEPT !.reqs[p] = Answer(req, 500, c.out.error)]
             /\ UNCHANGED blobs
        ELSE /\ blobs' = [blobs EXCEPT ![uniqueFilename] = c.out.encryptedFile]
             /\ cr' = [cr EXCEPT !.now = @ + elapsed, !.started = @ + 1,
                         !.reqs[p] = [req EXCEPT !.pc = "Document.create",
                            !.values = UploadValues(u, c, requiresPIN, pin, uniqueFilename, salt),
                            !.history = UploadHistory(u, c, requiresPIN, pin, salt)]]
  /\ UNCHANGED <<ENCRYPT_KEY, users, documents, uploaded, pinSet, dl>>

\* `await Document.create({...})` resolves with the new row, or rejects and
\* the catch block hands the error to next(error)
UploadCreate(p, resolves) ==
  /\ cr.reqs[p].pc = "Document.create"
  /\ IF resolves
     THEN /\ documents' = Append(documents, DocumentCreate(cr.reqs[p].values))
          /\ uploaded' = Append(uploaded, cr.reqs[p].history)
          /\ cr' = [cr EXCEPT !.reqs[p] = Answer(@, 201, "File uploaded and encrypted successfully")]
     ELSE /\ cr' = [cr EXCEPT !.reqs[p] = Answer(@, 500, "SequelizeConnectionError")]
          /\ UNCHANGED <<documents, uploaded>>
  /\ UNCHANGED <<ENCRYPT_KEY, users, blobs, pinSet, dl>>

\* DELETE /:id: `await Document.findOne({ where: { id, userId } })`
DeleteFind(p, u, id) ==
  /\ Vacant(p)
  /\ u \in 1..Len(users)
  /\ LET document == findOne(id, u)
         req == [Free EXCEPT !.userId = u, !.id = id, !.values = document]
     IN cr' = [cr EXCEPT !.reqs[p] = IF ~IsRow(document)
                                     THEN Answer(req, 404, "File not found")
                                     ELSE [req EXCEPT !.pc = "unlinkSync"]]
  /\ UNCHANGED <<ENCRYPT_KEY, users, documents, blobs, uploaded, pinSet, dl>>

\* if (fs.existsSync(filePath)) fs.unlinkSync(filePath), up to
\* `await document.destroy()`
DeleteUnlink(p) ==
  /\ cr.reqs[p].pc = "unlinkSync"
  /\ LET filePath == cr.reqs[p].values.filePath
     IN blobs' = IF existsSync(filePath)
                 THEN [blobs EXCEPT ![filePath[2]] = NoFile]
                 ELSE blobs
  /\ cr' = [cr EXCEPT !.reqs[p].pc = "document.destroy"]
  /\ UNCHANGED <<ENCRYPT_KEY, users, documents, uploaded, pinSet, dl>>

\* `await document.destroy()` resolves, or rejects and the catch block hands
\* the error to next(error)
DeleteDestroy(p, resolves) ==
  /\ cr.reqs[p].pc = "document.destroy"
  /\ IF resolves
     THEN /\ documents' = [documents EXCEPT ![cr.reqs[p].id] = NoDocument]
          /\ uploaded' = [uploaded EXCEPT ![cr.reqs[p].id] = NoUpload]
          /\ cr' = [cr EXCEPT !.reqs[p] = Answer(@, 200, "File deleted successfully")]
     ELSE /\ cr' = [cr EXCEPT !.reqs[p] = Answer(@, 500, "SequelizeConnectionError")]
          /\ UNCHANGED <<documents, uploaded>>
  /\ UNCHANGED <<ENCRYPT_KEY, users, blobs, pinSet, dl>>

\* no upload and no delete is between two awaits
Quiescent == \A p \in Slots : cr.reqs[p].pc \in {"free", "done"}

\* the rows whose filePath names the file
RowsAt(f) ==
  {id \in 1..Len(documents) :
     IsRow(documents[id]) /\ documents[id].filePath = <<UploadsDir, f>>}

(***************************************************************************)
(* SpecFailure: uploads and deletes of distinct milliseconds, whose        *)
(* database statements resolve or reject.                                  *)
(***************************************************************************)
NextFailure ==
  \/ Register
  \/ \E p \in Slots, u \in 1..MaxUsers, c \in UploadCalls, r \in RandomSuffixes, salt \in Salts :
        UploadStart(p, u, c, "false", Undefined, r, salt, 1)
  \/ \E p \in Slots, resolves \in BOOLEAN : UploadCreate(p, resolves)
  \/ \E p \in Slots, u \in 1..MaxUsers, id \in 1..MaxDocs : DeleteFind(p, u, id)
  \/ \E p \in Slots : DeleteUnlink(p)
  \/ \E p \in Slots, resolves \in BOOLEAN : DeleteDestroy(p, resolves)

SpecFailure == InitInflight /\ [][NextFailure]_vars

\* C24: whenever no request is between two awaits, the filePath of every
\* row names a blob that exists in the uploads directory, also after a
\* request whose database statement failed
C24_NoDanglingRecords ==
  Quiescent =>
    \A id \in 1..Len(documents) :
       IsRow(documents[id]) => existsSync(documents[id].filePath)

\* C25: whenever no request is between two awaits, every blob in the uploads
\* directory is the filePath of exactly one row, also after an upload whose
\* Document.create failed
C25_NoOrphanBlobs ==
  Quiescent =>
    \A f \in FileNames : blobs[f] # NoFile => Cardinality(RowsAt(f)) = 1


(***************************************************************************)
(* SpecRace: a download, step by step, while deletes are between their     *)
(* awaits.  The database statements resolve; the PIN sent with a download  *)
(* is the PIN the accounts set.                                            *)
(***************************************************************************)
NextRace ==
  \/ Register
  \/ \E u \in 1..MaxUsers, salt \in Salts : SetPin(u, Pin1234, salt)
  \/ \E u \in 1..MaxUsers, c \in UploadCalls, requiresPIN \in {"true", "false"},
        f \in uniqueFilenames, salt \in Salts :
          Upload(u, c, requiresPIN, IF IsTrue(requiresPIN) THEN Pin1234 ELSE Undefined, f, salt)
  \/ \E p \in Slots, u \in 1..MaxUsers, id \in 1..MaxDocs : DeleteFind(p, u, id)
  \/ \E p \in Slots : DeleteUnlink(p)
  \/ \E p \in Slots : DeleteDestroy(p, TRUE)
  \/ \E u \in 1..MaxUsers, id \in 1..MaxDocs : OwnershipCheck(u, id, Pin1234, "perFile")
  \/ PinRequiredCheck
  \/ PinSuppliedCheck
  \/ PinVerify
  \/ ReadAndDecrypt

SpecRace == InitInflight /\ [][NextRace]_vars

\* C26: however the steps of a download and of a delete of the same
\* document interleave, the download ends with status 200 and exactly the
\* bytes that were uploaded as this document, or with status 404 and no
\* bytes; it never ends with an error of the server or with other bytes.
\* (A download whose PIN is not the PIN of the account is refused with 403
\* and no bytes.)
C26_DownloadVsDelete ==
  [][(dl' # dl /\ dl'.pc = "done") =>
       \/ /\ dl'.status = 200
          /\ Owns(dl'.userId, dl'.id)
          /\ dl'.body = uploaded[dl'.id].fileBuffer
       \/ /\ dl'.status = 404
          /\ dl'.message \in {"File not found", "File not found on server"}
          /\ dl'.body = <<>>
       \/ /\ dl'.status = 403
          /\ dl'.document.requiresPIN
          /\ ~comparePIN(users[dl'.userId], dl'.pin)
          /\ dl'.body = <<>>]_vars

\* the download of a protected file found its row, passed the PIN check,
\* and then met the uploads directory after the delete had unlinked the blob
C26_Witness ==
  /\ dl.pc = "done"
  /\ dl.status = 404
  /\ dl.message = "File not found on server"
  /\ dl.document.requiresPIN
  /\ dl.guard = "ALLOWED"
  /\ \E p \in Slots : cr.reqs[p].pc = "document.destroy" /\ cr.reqs[p].id = dl.id


(***************************************************************************)
(* SpecUploads: two uploads between their awaits.  The second upload reads *)
(* Date.now() in the millisecond of the first or in a later one, and       *)
(* Math.random() gives each its suffix.                                    *)
(***************************************************************************)
NextUploads ==
  \/ Register
  \/ \E p \in Slots, u \in 1..MaxUsers, c \in UploadCalls, r \in RandomSuffixes,
        salt \in Salts, elapsed \in {0, 1} :
          UploadStart(p, u, c, "false", Undefined, r, salt, elapsed)
  \/ \E p \in Slots : UploadCreate(p, TRUE)

SpecUploads == InitInflight /\ [][NextUploads]_vars

\* the row's wrapped key and IV decrypt the blob at the row's path to the
\* bytes that were uploaded as this document
DecryptsToOwn(id) ==
  /\ existsSync(documents[id].filePath)
  /\ LET decryptedFile == decryptFile(ENCRYPT_KEY, readFileSync(documents[id].filePath),
                                      documents[id].encryptedKey, documents[id].encryptedIV)
     IN decryptedFile.ok /\ decryptedFile.bytes = uploaded[id].fileBuffer

\* C27: however two uploads interleave, the two rows have different
\* filenames and different file paths, and each row's key and IV decrypt
\* the blob at its own path to its own bytes
C27_IndependentUploads ==
  /\ \A i, j \in 1..Len(documents) :
        i # j => /\ documents[i].filename # documents[j].filename
                 /\ documents[i].filePath # documents[j].filePath
  /\ \A id \in 1..Len(documents) : DecryptsToOwn(id)

====
